---- MODULE Spec2Model ----
(***************************************************************************)
(* Raw communication layer of usb-c-soft-network (src/src/usb_raw_comm.h): *)
(* the UCNP frame codec, the /tmp mailbox transport, the connection state  *)
(* machine and the poll loop.                                              *)
(*                                                                         *)
(* Values of type uint32_t are 4-tuples of bytes in the order the packed   *)
(* header stores them on a little-endian host (least significant first),   *)
(* so that identities with the high bit set keep their full width.         *)
(***************************************************************************)
EXTENDS Integers, Sequences, FiniteSets, TLC

\* ------------------------------------------------------------------ bounds
\* frames one session may build before its operations are disabled
MaxSeq == 3
\* the wall clock (st_mtime, in seconds) runs from 1 to MaxTime
MaxTime == 2
MaxCycles == 4
\* a process is polled until it has waited MaxWait ms for a peer
MaxWait == 4000
\* frames the encoder builds in a row in the codec specification
MaxFrames == 2

\* ------------------------------------------------------- program constants
RAW_STATE_DISCONNECTED == 0
RAW_STATE_DETECTING == 1
RAW_STATE_HANDSHAKING == 2
RAW_STATE_CONNECTED == 3
RAW_STATE_ERROR == 4

RAW_MSG_DISCOVERY == 1
RAW_MSG_DISCOVERY_ACK == 2
RAW_MSG_HANDSHAKE == 3
RAW_MSG_HANDSHAKE_ACK == 4
RAW_MSG_DATA == 16
RAW_MSG_DATA_ACK == 17
RAW_MSG_KEEPALIVE == 32
RAW_MSG_DISCONNECT == 255

RAW_MSG_MAGIC == <<85, 67, 78, 80>>
RAW_PROTOCOL_VERSION == 1
\* sizeof(raw_msg_header_t), a packed struct
HeaderSize == 24
\* sizeof(msg_buf) in raw_comm_send / raw_comm_recv and of buf in raw_comm_poll
MsgBufSize == 1024
\* sizeof(msg_buf) / sizeof(ack_buf) of the control frames
CtlBufSize == 256
\* raw_comm_poll: interval between receive attempts, and the re-announcement period
PollInterval == 100
RediscoverPeriod == 2000

\* ------------------------------------------------------------ bytes, words
Min(a, b) == IF a < b THEN a ELSE b

\* F(v), with v evaluated once
Bind(v, F(_)) == CHOOSE y \in {F(x) : x \in {v}} : TRUE

Zero32 == <<0, 0, 0, 0>>

\* x + 1 modulo 2^32 on the little-endian byte tuple
Inc32_LowByte(x) == <<(x[1] + 1) % 256, x[2], x[3], x[4]>>
Inc32(x) ==
    IF x[1] < 255 THEN <<x[1] + 1, x[2], x[3], x[4]>>
    ELSE IF x[2] < 255 THEN <<0, x[2] + 1, x[3], x[4]>>
    ELSE IF x[3] < 255 THEN <<0, 0, x[3] + 1, x[4]>>
    ELSE IF x[4] < 255 THEN <<0, 0, 0, x[4] + 1>>
    ELSE Zero32

\* a uint32 below 256 as a number; larger values read as 256
Small32(x) == IF x[2] = 0 /\ x[3] = 0 /\ x[4] = 0 THEN x[1] ELSE 256

\* (uint16_t)n in memory
LE16_BigEndian(n) == <<(n % 65536) \div 256, (n % 65536) % 256>>
LE16(n) == <<(n % 65536) % 256, (n % 65536) \div 256>>

\* the loop's sum += data[i] over lo..hi, added up by halves to keep the evaluation shallow
RECURSIVE SumRange(_, _, _)
SumRange(data, lo, hi) ==
    IF lo > hi THEN 0
    ELSE IF lo = hi THEN data[lo]
    ELSE SumRange(data, lo, (lo + hi) \div 2) + SumRange(data, (lo + hi) \div 2 + 1, hi)

SumBytes(data, i) == SumRange(data, i, Len(data))

\* calc_checksum: the byte sum, truncated to 16 bits
calc_checksum_LowByte(data) == SumBytes(data, 1) % 256
calc_checksum(data) == SumBytes(data, 1) % 65536

\* generate_local_id: the random word with bit 31 forced
generate_local_id_AsRead(r) == r
generate_local_id(r) == <<r[1], r[2], r[3], IF r[4] >= 128 THEN r[4] ELSE r[4] + 128>>

\* printf's %x digit and %08x of a uint32
HexDigit(d) == IF d < 10 THEN 48 + d ELSE 87 + d
Hex8(x) ==
    << HexDigit(x[4] \div 16), HexDigit(x[4] % 16), HexDigit(x[3] \div 16), HexDigit(x[3] % 16),
       HexDigit(x[2] \div 16), HexDigit(x[2] % 16), HexDigit(x[1] \div 16), HexDigit(x[1] % 16) >>

\* the payload strings, each with its terminating NUL (strlen + 1 bytes)
DiscoverPayload(id) == <<68, 73, 83, 67, 79, 86, 69, 82, 58>> \o Hex8(id) \o <<0>>
AckPayload(id) == <<65, 67, 75, 58>> \o Hex8(id) \o <<0>>
HshakeAckPayload(id) == <<72, 83, 72, 65, 75, 69, 95, 65, 67, 75, 58>> \o Hex8(id) \o <<0>>
HandshakePayload(id, peer) ==
    <<72, 65, 78, 68, 83, 72, 65, 75, 69, 58>> \o Hex8(id) \o <<45, 62>> \o Hex8(peer) \o <<0>>

\* ------------------------------------------------------------------- codec
\* the bytes of a frame with the given header fields (checksum as given)
FrameBytes(magic, version, msg_type, length, src, dst, seq, checksum, payload) ==
    magic \o <<version, msg_type>> \o LE16(length) \o src \o dst \o seq
          \o LE16(checksum) \o <<0, 0>> \o payload

\* build_message: rc is the frame length, or -1 when the output buffer is too small
build_message(c, msg_type, payload, output_size) ==
    IF output_size < HeaderSize + Len(payload)
    THEN [rc |-> -1, msg |-> <<>>, ctx |-> c]
    ELSE LET zeroed == FrameBytes(RAW_MSG_MAGIC, RAW_PROTOCOL_VERSION, msg_type, Len(payload),
                                  c.local_id, c.peer_id, c.seq_tx, 0, payload)
             full == FrameBytes(RAW_MSG_MAGIC, RAW_PROTOCOL_VERSION, msg_type, Len(payload),
                                c.local_id, c.peer_id, c.seq_tx, calc_checksum(zeroed), payload)
         IN [rc |-> HeaderSize + Len(payload), msg |-> full,
             ctx |-> [c EXCEPT !.seq_tx = Inc32(c.seq_tx)]]

\* the header fields as parse_message's memcpy into raw_msg_header_t reads them
HdrOf(input) ==
    [magic |-> SubSeq(input, 1, 4), version |-> input[5], msg_type |-> input[6],
     length |-> input[7] + 256 * input[8], src_id |-> SubSeq(input, 9, 12),
     dst_id |-> SubSeq(input, 13, 16), seq |-> SubSeq(input, 17, 20),
     checksum |-> input[21] + 256 * input[22], reserved |-> input[23] + 256 * input[24]]

NoHdr ==
    [magic |-> Zero32, version |-> 0, msg_type |-> 0, length |-> 0, src_id |-> Zero32,
     dst_id |-> Zero32, seq |-> Zero32, checksum |-> 0, reserved |-> 0]

\* parse_message: rc is the number of payload bytes copied, or -1 .. -4
MagicOk_Any(magic) == TRUE
MagicOk_FirstByteOnly(magic) == magic[1] = RAW_MSG_MAGIC[1]
MagicOk(magic) == magic = RAW_MSG_MAGIC
parse_message_Verified(input, payload_max) ==
    IF Len(input) < HeaderSize THEN [rc |-> -1, hdr |-> NoHdr, payload |-> <<>>]
    ELSE LET hdr == HdrOf(input) IN
         IF ~MagicOk(hdr.magic) THEN [rc |-> -2, hdr |-> hdr, payload |-> <<>>]
         ELSE IF hdr.version # RAW_PROTOCOL_VERSION THEN [rc |-> -3, hdr |-> hdr, payload |-> <<>>]
         ELSE IF Len(input) < HeaderSize + hdr.length THEN [rc |-> -4, hdr |-> hdr, payload |-> <<>>]
         ELSE IF hdr.checksum # calc_checksum([i \in 1..Len(input) |->
                                                 IF i \in {21, 22} THEN 0 ELSE input[i]])
         THEN [rc |-> -5, hdr |-> hdr, payload |-> <<>>]
         ELSE LET copy_len == Min(hdr.length, payload_max) IN
              [rc |-> copy_len, hdr |-> hdr,
               payload |-> SubSeq(input, HeaderSize + 1, HeaderSize + copy_len)]
parse_message(input, payload_max) ==
    IF Len(input) < HeaderSize THEN [rc |-> -1, hdr |-> NoHdr, payload |-> <<>>]
    ELSE LET hdr == HdrOf(input) IN
         IF ~MagicOk(hdr.magic) THEN [rc |-> -2, hdr |-> hdr, payload |-> <<>>]
         ELSE IF hdr.version # RAW_PROTOCOL_VERSION THEN [rc |-> -3, hdr |-> hdr, payload |-> <<>>]
         ELSE IF Len(input) < HeaderSize + hdr.length THEN [rc |-> -4, hdr |-> hdr, payload |-> <<>>]
         ELSE LET copy_len == Min(hdr.length, payload_max) IN
              [rc |-> copy_len, hdr |-> hdr,
               payload |-> SubSeq(input, HeaderSize + 1, HeaderSize + copy_len)]

\* --------------------------------------------------------------- identities
Sessions == {"A", "B"}

\* what /dev/urandom delivers to each process
Seed == [A |-> <<1, 0, 0, 0>>, B |-> <<2, 0, 0, 128>>]
Ids == [s \in Sessions |-> generate_local_id(Seed[s])]
\* the identity of a third process using the same directory
IdC == <<3, 0, 0, 128>>
AllIds == {Ids[s] : s \in Sessions} \cup {IdC}

\* raw_comm_init: memset, state, local_id
raw_comm_init_NoMemset(r) ==
    [state |-> RAW_STATE_DISCONNECTED, local_id |-> generate_local_id(r),
     peer_id |-> Zero32, seq_tx |-> Zero32, seq_rx |-> <<1, 0, 0, 0>>]
raw_comm_init(r) ==
    [state |-> RAW_STATE_DISCONNECTED, local_id |-> generate_local_id(r),
     peer_id |-> Zero32, seq_tx |-> Zero32, seq_rx |-> Zero32]

\* --------------------------------------------------------------- transport
\* /tmp/usbc_net_comm.<id>: one file per sender identity
NoFile == [exists |-> FALSE, data |-> <<>>, mtime |-> 0]
File(data, t) == [exists |-> TRUE, data |-> data, mtime |-> t]

\* sysfs_send_message: open(O_CREAT | O_TRUNC), write, close
sysfs_send_message(mb, c, msg, t) == [mb EXCEPT ![c.local_id] = File(msg, t)]

RECURSIVE SendAll(_, _, _, _)
SendAll(mb, c, out, t) ==
    IF out = <<>> THEN mb ELSE SendAll(sysfs_send_message(mb, c, Head(out), t), c, Tail(out), t)

\* the readdir loop of sysfs_recv_message: files of other senders; the first one
\* met with the greatest st_mtime is kept, and readdir's order is arbitrary
Candidates(mb, c) == {id \in DOMAIN mb : mb[id].exists /\ id # c.local_id /\ mb[id].mtime > 0}
BestChoices(mb, c) ==
    LET cand == Candidates(mb, c)
        best == {id \in cand : \A o \in cand : mb[o].mtime <= mb[id].mtime}
    IN IF best = {} THEN {Zero32} ELSE best

sysfs_recv_message_NoUnlink(mb, c, best, max_len) ==
    IF best = Zero32 THEN [rc |-> 0, msg |-> <<>>, mb |-> mb]
    ELSE LET n == Min(Len(mb[best].data), max_len) IN
         [rc |-> n, msg |-> SubSeq(mb[best].data, 1, n), mb |-> mb]
\* sysfs_recv_message after the scan: read up to max_len bytes, then unlink
sysfs_recv_message(mb, c, best, max_len) ==
    IF best = Zero32 THEN [rc |-> 0, msg |-> <<>>, mb |-> mb]
    ELSE LET n == Min(Len(mb[best].data), max_len) IN
         [rc |-> n, msg |-> SubSeq(mb[best].data, 1, n), mb |-> [mb EXCEPT ![best] = NoFile]]

\* ------------------------------------------------------ connection state machine
\* "len = build_message(..); if (len > 0) sysfs_send_message(..)": the frames to send
Emit(c, msg_type, payload, size) ==
    Bind(build_message(c, msg_type, payload, size),
         LAMBDA b : [ctx |-> b.ctx, out |-> IF b.rc > 0 THEN <<b.msg>> ELSE <<>>, rc |-> b.rc])

Result(c, out, ret, cbs, data, buf) ==
    [ctx |-> c, out |-> out, ret |-> ret, cbs |-> cbs, data |-> data, buf |-> buf]

\* raw_comm_listen
raw_comm_listen_ForgetPeer(c) ==
    LET c1 == [c EXCEPT !.state = RAW_STATE_DETECTING, !.peer_id = Zero32]
        e == Emit(c1, RAW_MSG_DISCOVERY, DiscoverPayload(c.local_id), CtlBufSize)
    IN Result(e.ctx, e.out, 0, <<>>, <<>>, <<>>)
raw_comm_listen(c) ==
    LET c1 == [c EXCEPT !.state = RAW_STATE_DETECTING]
        e == Emit(c1, RAW_MSG_DISCOVERY, DiscoverPayload(c.local_id), CtlBufSize)
    IN Result(e.ctx, e.out, 0, <<>>, <<>>, <<>>)

\* raw_comm_connect
raw_comm_connect_UnlessConnected(c, peer_id) ==
    IF c.state = RAW_STATE_CONNECTED THEN Result(c, <<>>, 0, <<>>, <<>>, <<>>)
    ELSE LET c1 == [c EXCEPT !.peer_id = peer_id, !.state = RAW_STATE_HANDSHAKING]
             e == Emit(c1, RAW_MSG_HANDSHAKE, HandshakePayload(c.local_id, peer_id), CtlBufSize)
         IN Result(e.ctx, e.out, 0, <<>>, <<>>, <<>>)
raw_comm_connect_OnlyConnected(c, peer_id) ==
    IF c.state # RAW_STATE_CONNECTED THEN Result(c, <<>>, -1, <<>>, <<>>, <<>>)
    ELSE LET c1 == [c EXCEPT !.peer_id = peer_id, !.state = RAW_STATE_HANDSHAKING]
             e == Emit(c1, RAW_MSG_HANDSHAKE, HandshakePayload(c.local_id, peer_id), CtlBufSize)
         IN Result(e.ctx, e.out, 0, <<>>, <<>>, <<>>)
raw_comm_connect_PeerNotKept(c, peer_id) ==
    LET c1 == [c EXCEPT !.state = RAW_STATE_HANDSHAKING]
        e == Emit(c1, RAW_MSG_HANDSHAKE, HandshakePayload(c.local_id, peer_id), CtlBufSize)
    IN Result(e.ctx, e.out, 0, <<>>, <<>>, <<>>)
raw_comm_connect(c, peer_id) ==
    LET c1 == [c EXCEPT !.peer_id = peer_id, !.state = RAW_STATE_HANDSHAKING]
        e == Emit(c1, RAW_MSG_HANDSHAKE, HandshakePayload(c.local_id, peer_id), CtlBufSize)
    IN Result(e.ctx, e.out, 0, <<>>, <<>>, <<>>)

\* raw_comm_send: the result is what sysfs_send_message returns, the bytes written
SendAllowed_Always(c) == TRUE
SendAllowed(c) == c.state = RAW_STATE_CONNECTED
raw_comm_send(c, data) ==
    IF ~SendAllowed(c) THEN Result(c, <<>>, -1, <<>>, <<>>, <<>>)
    ELSE LET e == Emit(c, RAW_MSG_DATA, data, MsgBufSize) IN
         Result(e.ctx, e.out, IF e.rc > 0 THEN e.rc ELSE -1, <<>>, <<>>, <<>>)

\* raw_comm_cleanup
raw_comm_cleanup_Goodbye(c) ==
    LET e == Emit([c EXCEPT !.state = RAW_STATE_DISCONNECTED], RAW_MSG_DISCONNECT, <<>>, CtlBufSize)
    IN Result(e.ctx, e.out, 0, <<>>, <<>>, <<>>)
raw_comm_cleanup_Error(c) ==
    Result([c EXCEPT !.state = RAW_STATE_ERROR], <<>>, 0, <<>>, <<>>, <<>>)
raw_comm_cleanup(c) ==
    Result([c EXCEPT !.state = RAW_STATE_DISCONNECTED], <<>>, 0, <<>>, <<>>, <<>>)

\* the state tests of raw_comm_recv's switch
DiscoveryAccepted_AlsoConnected(c) ==
    c.state \in {RAW_STATE_DETECTING, RAW_STATE_CONNECTED}
DiscoveryAccepted_OnceHandshaking(c) == c.state = RAW_STATE_HANDSHAKING
DiscoveryAccepted(c) == c.state = RAW_STATE_DETECTING
DiscoveryAckAccepted_Idle(c) == c.state = RAW_STATE_DISCONNECTED
DiscoveryAckAccepted(c) == c.state = RAW_STATE_DETECTING
HandshakeAccepted_AlsoConnected(c) == c.state # RAW_STATE_DISCONNECTED
HandshakeAccepted_DetectingOnly(c) == c.state = RAW_STATE_DETECTING
HandshakeAccepted(c) == c.state = RAW_STATE_DETECTING \/ c.state = RAW_STATE_HANDSHAKING
HandshakeAckAccepted_UnlessConnected(c) == c.state # RAW_STATE_CONNECTED
HandshakeAckAccepted(c) == c.state = RAW_STATE_HANDSHAKING
DataAccepted_WholeFrame(c, payload_len) == c.state = RAW_STATE_CONNECTED /\ payload_len > HeaderSize
DataAccepted(c, payload_len) == c.state = RAW_STATE_CONNECTED /\ payload_len > 0

\* the context after DISCONNECT
Dropped_OnlyConnected(c) ==
    IF c.state = RAW_STATE_CONNECTED
    THEN [c EXCEPT !.state = RAW_STATE_DISCONNECTED, !.peer_id = Zero32]
    ELSE c
Dropped_KeepPeer(c) == [c EXCEPT !.state = RAW_STATE_DISCONNECTED]
Dropped(c) == [c EXCEPT !.state = RAW_STATE_DISCONNECTED, !.peer_id = Zero32]

\* raw_comm_recv from parse_message on: msg holds the n > 0 bytes read
HandleMessage(c, msg, max_len) ==
    LET p == parse_message(msg, MsgBufSize)
        hdr == p.hdr
        ignore == Result(c, <<>>, 0, <<>>, <<>>, <<>>)
    IN
    IF p.rc < 0 THEN Result(c, <<>>, -1, <<>>, <<>>, <<>>)
    ELSE IF hdr.msg_type = RAW_MSG_DISCOVERY THEN
        IF DiscoveryAccepted(c)
        THEN LET c1 == [c EXCEPT !.peer_id = hdr.src_id]
                 e == Emit(c1, RAW_MSG_DISCOVERY_ACK, AckPayload(c.local_id), CtlBufSize)
             IN Result(e.ctx, e.out, 0, <<>>, <<>>, <<>>)
        ELSE ignore
    ELSE IF hdr.msg_type = RAW_MSG_DISCOVERY_ACK THEN
        IF DiscoveryAckAccepted(c)
        THEN raw_comm_connect([c EXCEPT !.peer_id = hdr.src_id, !.state = RAW_STATE_HANDSHAKING],
                              hdr.src_id)
        ELSE ignore
    ELSE IF hdr.msg_type = RAW_MSG_HANDSHAKE THEN
        IF HandshakeAccepted(c)
        THEN LET c1 == [c EXCEPT !.peer_id = hdr.src_id]
                 e == Emit(c1, RAW_MSG_HANDSHAKE_ACK, HshakeAckPayload(c.local_id), CtlBufSize)
             IN Result([e.ctx EXCEPT !.state = RAW_STATE_CONNECTED], e.out, 0,
                       <<"connected">>, <<>>, <<>>)
        ELSE ignore
    ELSE IF hdr.msg_type = RAW_MSG_HANDSHAKE_ACK THEN
        IF HandshakeAckAccepted(c)
        THEN Result([c EXCEPT !.state = RAW_STATE_CONNECTED], <<>>, 0, <<"connected">>, <<>>, <<>>)
        ELSE ignore
    ELSE IF hdr.msg_type = RAW_MSG_DATA THEN
        IF DataAccepted(c, p.rc)
        THEN LET copy_len == Min(p.rc, max_len) IN
             Result(c, <<>>, copy_len, <<"data">>, p.payload, SubSeq(p.payload, 1, copy_len))
        ELSE ignore
    ELSE IF hdr.msg_type = RAW_MSG_DISCONNECT THEN
        Result(Dropped(c), <<>>, 0, <<"disconnected">>, <<>>, <<>>)
    ELSE ignore

\* raw_comm_recv: the transport receive, then the handler; rx is sysfs_recv_message's result
RecvResult_Addressed(c, rx, max_len) ==
    IF rx.rc <= 0 THEN Result(c, <<>>, rx.rc, <<>>, <<>>, <<>>)
    ELSE IF Len(rx.msg) >= HeaderSize /\ SubSeq(rx.msg, 13, 16) \notin {c.local_id, Zero32}
    THEN Result(c, <<>>, 0, <<>>, <<>>, <<>>)
    ELSE HandleMessage(c, rx.msg, max_len)
RecvResult(c, rx, max_len) ==
    IF rx.rc <= 0 THEN Result(c, <<>>, rx.rc, <<>>, <<>>, <<>>)
    ELSE HandleMessage(c, rx.msg, max_len)

\* the DISCOVERY re-announcement of raw_comm_poll
Rediscover(c) == Emit(c, RAW_MSG_DISCOVERY, DiscoverPayload(c.local_id), CtlBufSize)

\* the tests and results of raw_comm_poll's loop; n is what raw_comm_recv returned
PollGotData_AnyNonZero(n) == n # 0
PollGotData(n) == n > 0
PollConnected_Never(c) == FALSE
PollConnected(c) == c.state = RAW_STATE_CONNECTED
PollTimeoutResult == 0
PollConnectedResult_One == PollTimeoutResult + 1
PollConnectedResult == 0
PollGoesOn(elapsed, timeout_ms) == elapsed < timeout_ms
RediscoverDue_AnyState(c, elapsed) == (elapsed % RediscoverPeriod) = 0
RediscoverDue(c, elapsed) == c.state = RAW_STATE_DETECTING /\ (elapsed % RediscoverPeriod) = 0

\* one pass of raw_comm_poll's loop, entered with elapsed < timeout_ms; r is the
\* result of its raw_comm_recv. done: the call returns ret.
PollPass(r, timeout_ms, elapsed) ==
    IF PollGotData(r.ret)
    THEN [done |-> TRUE, ret |-> r.ret, elapsed |-> elapsed, ctx |-> r.ctx, out |-> r.out]
    ELSE IF PollConnected(r.ctx)
    THEN [done |-> TRUE, ret |-> PollConnectedResult, elapsed |-> elapsed, ctx |-> r.ctx,
          out |-> r.out]
    ELSE Bind(IF RediscoverDue(r.ctx, elapsed + PollInterval)
              THEN Rediscover(r.ctx)
              ELSE [ctx |-> r.ctx, out |-> <<>>, rc |-> 0],
              LAMBDA e : [done |-> ~PollGoesOn(elapsed + PollInterval, timeout_ms),
                          ret |-> PollTimeoutResult, elapsed |-> elapsed + PollInterval,
                          ctx |-> e.ctx, out |-> r.out \o e.out])

\* ------------------------------------------------------------------- state
VARIABLES
    ctx,        \* the raw_comm_ctx_t of each process: state, local_id, peer_id, seq_tx, seq_rx
    mailbox,    \* the files /tmp/usbc_net_comm.<id>, by sender identity
    now,        \* the wall clock in seconds (the st_mtime a write leaves)
    poll,       \* the raw_comm_poll call each process is in: timeout_ms, elapsed, attempts
    ev,         \* what the last step did: the call, its result, frames sent, callbacks
    nconn,      \* how often each process has invoked on_connected
    io,         \* where each process is inside sysfs_recv_message / sysfs_send_message
    turn,       \* the alternation of poll calls: who polled last, the calls made, their timeout
    owed,       \* the DATA payload sent to each process that its next poll call is to deliver
    waited      \* the ms each process has spent in raw_comm_poll, Detecting, since its last DISCOVERY

vars == <<ctx, mailbox, now, poll, ev, nconn, io, turn, owed, waited>>
aux == <<io, turn, owed, waited>>

\* no transport call in progress; no payload outstanding
NoIo == [pc |-> "idle", best |-> Zero32, n |-> 0, msg |-> <<>>, out |-> <<>>, live |-> FALSE]
NoDebt == [pending |-> FALSE, p |-> <<>>, last |-> FALSE]

Other(s) == IF s = "A" THEN "B" ELSE "A"

Idle == [active |-> FALSE, timeout |-> 0, elapsed |-> 0, attempts |-> 0]

NoRx == [rc |-> 0, msg |-> <<>>]

\* a step of the environment, or of process who in call op
EnvEvent(op) ==
    [who |-> "", op |-> op, done |-> TRUE, ret |-> 0, sent |-> <<>>, cbs |-> <<>>, data |-> <<>>,
     buf |-> <<>>, attempts |-> 0, timeout |-> 0, elapsed |-> 0, rx |-> NoRx]
\* r is the Result of the call (or of the pass of the poll loop), rx what it received
CallEvent(who, op, done, r, rx) ==
    [EnvEvent(op) EXCEPT !.who = who, !.done = done, !.ret = r.ret, !.sent = r.out, !.cbs = r.cbs,
                         !.data = r.data, !.buf = r.buf, !.rx = [rc |-> rx.rc, msg |-> rx.msg]]

Count(cbs, name) == Cardinality({i \in 1..Len(cbs) : cbs[i] = name})

\* a process may go on while it has built fewer than MaxSeq frames
SeqOk(s) == Small32(ctx[s].seq_tx) < MaxSeq

\* --------------------------------------------------------------- inputs
PeerArgs == {Ids["B"], IdC}
Ping == <<112, 105, 110, 103>>
Oversize == [i \in 1..(MsgBufSize - HeaderSize + 1) |-> 0]
DataPayloads == {<<>>, Ping, Oversize}
RecvLens == {2, 255}
PollTimeouts == {-100, 0, 250, 2000}

\* a frame as a process with identity src and recorded peer dst builds it
PeerFrame(src, dst, msg_type, payload) ==
    build_message([raw_comm_init(src) EXCEPT !.peer_id = dst], msg_type, payload, MsgBufSize).msg

GoodHandshake == PeerFrame(Ids["B"], Ids["A"], RAW_MSG_HANDSHAKE, HandshakePayload(Ids["B"], Ids["A"]))

\* buffers that parse_message rejects: empty, shorter than a header, wrong magic,
\* wrong version, payload cut short
WrongMagic == [GoodHandshake EXCEPT ![4] = 112]
WrongVersion == [GoodHandshake EXCEPT ![5] = 2]
ShortHeader == SubSeq(GoodHandshake, 1, HeaderSize - 1)
CutPayload == SubSeq(GoodHandshake, 1, Len(GoodHandshake) - 1)
Malformed == {ShortHeader, WrongMagic, WrongVersion, CutPayload}

FramesFrom(src, dst) ==
    { PeerFrame(src, dst, RAW_MSG_DISCOVERY, DiscoverPayload(src)),
      PeerFrame(src, dst, RAW_MSG_DISCOVERY_ACK, AckPayload(src)),
      PeerFrame(src, dst, RAW_MSG_HANDSHAKE, HandshakePayload(src, dst)),
      PeerFrame(src, dst, RAW_MSG_HANDSHAKE_ACK, HshakeAckPayload(src)),
      PeerFrame(src, dst, RAW_MSG_DATA, Ping),
      PeerFrame(src, dst, RAW_MSG_DATA, <<>>),
      PeerFrame(src, dst, RAW_MSG_KEEPALIVE, <<>>),
      PeerFrame(src, dst, RAW_MSG_DISCONNECT, <<>>) }

\* what a process outside the model may have left in the directory when a receive
\* begins: <<file, contents>>, or nothing
NoArrival == <<Zero32, <<>>>>
Outside ==
    {<<Ids["B"], f>> : f \in FramesFrom(Ids["B"], Ids["A"]) \cup Malformed \cup {<<>>}}
    \cup {<<IdC, f>> : f \in {PeerFrame(IdC, Zero32, RAW_MSG_HANDSHAKE, HandshakePayload(IdC, Zero32)),
                              PeerFrame(IdC, Zero32, RAW_MSG_HANDSHAKE_ACK, HshakeAckPayload(IdC)),
                              PeerFrame(IdC, Zero32, RAW_MSG_DATA, <<120>>)}}
    \cup {NoArrival}
Arrive(mb, w, t) == IF w = NoArrival THEN mb ELSE [mb EXCEPT ![w[1]] = File(w[2], t)]

\* ------------------------------------------------------------------ actions
Init ==
    /\ ctx = [s \in Sessions |-> raw_comm_init(Seed[s])]
    /\ mailbox = [id \in AllIds |-> NoFile]
    /\ now = 1
    /\ poll = [s \in Sessions |-> Idle]
    /\ ev = EnvEvent("init")
    /\ nconn = [s \in Sessions |-> 0]
    /\ io = [s \in Sessions |-> NoIo]
    /\ turn = [who |-> "", polls |-> 0, timeout |-> 0]
    /\ owed = [s \in Sessions |-> NoDebt]
    /\ waited = [s \in Sessions |-> 0]

\* a call that returns at once: r is its Result
Finish(s, op, r, mb, rx) ==
    /\ ctx' = [ctx EXCEPT ![s] = r.ctx]
    /\ mailbox' = SendAll(mb, ctx[s], r.out, now)
    /\ ev' = CallEvent(s, op, TRUE, r, rx)
    /\ nconn' = [nconn EXCEPT ![s] = @ + Count(r.cbs, "connected")]
    /\ UNCHANGED <<now, poll>>

Listen(s) ==
    /\ ~poll[s].active
    /\ \E r \in {raw_comm_listen(ctx[s])} : Finish(s, "listen", r, mailbox, NoRx)

Connect(s, peers) ==
    /\ ~poll[s].active
    /\ \E peer \in peers : \E r \in {raw_comm_connect(ctx[s], peer)} :
         Finish(s, "connect", r, mailbox, NoRx)

Send(s) ==
    /\ ~poll[s].active
    /\ \E data \in DataPayloads : \E r \in {raw_comm_send(ctx[s], data)} :
         Finish(s, "send", r, mailbox, NoRx)

Cleanup(s) ==
    /\ ~poll[s].active
    /\ \E r \in {raw_comm_cleanup(ctx[s])} : Finish(s, "cleanup", r, mailbox, NoRx)

\* raw_comm_recv called by the application itself; arrivals: what may have been
\* written by processes outside the model since its last receive
Recv(s, arrivals) ==
    /\ ~poll[s].active
    /\ \E w \in arrivals, max_len \in RecvLens :
         \E mb \in {Arrive(mailbox, w, now)} : \E best \in BestChoices(mb, ctx[s]) :
         \E rx \in {sysfs_recv_message(mb, ctx[s], best, MsgBufSize)} :
         \E r \in {RecvResult(ctx[s], rx, max_len)} :
            Finish(s, "recv", r, rx.mb, rx)

\* one pass of the loop of raw_comm_poll(timeout_ms), rx being what its
\* sysfs_recv_message returned
PollWith(s, rx, timeout_ms, elapsed, attempts) ==
    \E r \in {RecvResult(ctx[s], rx, MsgBufSize)} :
    \E p \in {PollPass(r, timeout_ms, elapsed)} :
          /\ ctx' = [ctx EXCEPT ![s] = p.ctx]
          /\ mailbox' = SendAll(rx.mb, ctx[s], p.out, now)
          /\ poll' = [poll EXCEPT ![s] =
                        IF p.done THEN Idle
                        ELSE [active |-> TRUE, timeout |-> timeout_ms, elapsed |-> p.elapsed,
                              attempts |-> attempts + 1]]
          /\ ev' = [CallEvent(s, "poll", p.done, r, rx) EXCEPT
                        !.ret = p.ret, !.sent = p.out, !.attempts = attempts + 1,
                        !.timeout = timeout_ms, !.elapsed = p.elapsed]
          /\ nconn' = [nconn EXCEPT ![s] = @ + Count(r.cbs, "connected")]
          /\ UNCHANGED now

PollStep(s, arrivals, timeout_ms, elapsed, attempts) ==
    \E w \in arrivals : \E mb \in {Arrive(mailbox, w, now)} : \E best \in BestChoices(mb, ctx[s]) :
    \E rx \in {sysfs_recv_message(mb, ctx[s], best, MsgBufSize)} :
        PollWith(s, rx, timeout_ms, elapsed, attempts)

\* raw_comm_poll is called: with timeout_ms <= 0 the loop is not entered
Poll(s, arrivals, timeouts) ==
    /\ ~poll[s].active
    /\ \E timeout_ms \in timeouts :
         IF PollGoesOn(0, timeout_ms)
         THEN PollStep(s, arrivals, timeout_ms, 0, 0)
         ELSE /\ ev' = [EnvEvent("poll") EXCEPT !.who = s, !.timeout = timeout_ms,
                                                !.ret = PollTimeoutResult]
              /\ UNCHANGED <<ctx, mailbox, now, poll, nconn>>

\* the loop goes round again after usleep
PollIter(s, arrivals) ==
    /\ poll[s].active
    /\ PollStep(s, arrivals, poll[s].timeout, poll[s].elapsed, poll[s].attempts)

\* a second of wall-clock time passes
Tick ==
    /\ now < MaxTime
    /\ now' = now + 1
    /\ ev' = EnvEvent("tick")
    /\ UNCHANGED <<ctx, mailbox, poll, nconn>>

\* one process, with the rest of the system as its environment
Next ==
    \/ SeqOk("A") /\ Listen("A") /\ UNCHANGED aux
    \/ SeqOk("A") /\ Connect("A", PeerArgs) /\ UNCHANGED aux
    \/ SeqOk("A") /\ Send("A") /\ UNCHANGED aux
    \/ SeqOk("A") /\ Recv("A", Outside) /\ UNCHANGED aux
    \/ SeqOk("A") /\ Poll("A", Outside, PollTimeouts) /\ UNCHANGED aux
    \/ SeqOk("A") /\ PollIter("A", Outside) /\ UNCHANGED aux
    \/ Cleanup("A") /\ UNCHANGED aux

Spec == Init /\ [][Next]_vars

\* ------------------------------------------------------------ two processes
\* the payload of a DATA frame as build_message laid it out
PayloadOf(msg) == SubSeq(msg, HeaderSize + 1, Len(msg))

PairTimeouts == {0, 250}

\* bookkeeping of a step of process s: a non-empty payload that s sent while Connected
\* is owed to the next poll call of its peer; any later frame of s replaces it in the
\* file of s; a poll call of s that returns settles what s was owed
Track(s) ==
    owed' = [t \in Sessions |->
               IF t = s
               THEN IF ev'.op = "poll" /\ ev'.done THEN NoDebt ELSE owed[t]
               ELSE IF ev'.sent = <<>> THEN owed[t]
               ELSE IF owed[t].pending THEN [owed[t] EXCEPT !.last = FALSE]
               ELSE IF /\ ev'.op = "send" /\ ev'.ret > 0
                       /\ PayloadOf(ev'.sent[1]) # <<>>
                       /\ ~poll[t].active
               THEN [pending |-> TRUE, p |-> PayloadOf(ev'.sent[1]), last |-> TRUE]
               ELSE owed[t]]

PairListen(s) == SeqOk(s) /\ Listen(s) /\ Track(s) /\ UNCHANGED <<io, turn, waited>>
PairConnect(s) == SeqOk(s) /\ Connect(s, {Ids[Other(s)]}) /\ Track(s) /\ UNCHANGED <<io, turn, waited>>
PairSend(s) == SeqOk(s) /\ Send(s) /\ Track(s) /\ UNCHANGED <<io, turn, waited>>
PairPoll(s) ==
    SeqOk(s) /\ Poll(s, {NoArrival}, PairTimeouts) /\ Track(s) /\ UNCHANGED <<io, turn, waited>>
PairPollIter(s) == SeqOk(s) /\ PollIter(s, {NoArrival}) /\ Track(s) /\ UNCHANGED <<io, turn, waited>>

\* two processes sharing the directory, each in its own order of calls
NextPair ==
    \/ PairListen("A")
    \/ PairListen("B")
    \/ PairConnect("A")
    \/ PairConnect("B")
    \/ PairSend("A")
    \/ PairSend("B")
    \/ PairPoll("A")
    \/ PairPoll("B")
    \/ PairPollIter("A")
    \/ PairPollIter("B")

SpecPair == Init /\ [][NextPair]_vars

\* two processes either of which may shut down
PairCleanup(s) == Cleanup(s) /\ Track(s) /\ UNCHANGED <<io, turn, waited>>

NextShut ==
    \/ PairListen("A")
    \/ PairListen("B")
    \/ PairConnect("A")
    \/ PairConnect("B")
    \/ PairSend("A")
    \/ PairSend("B")
    \/ PairPoll("A")
    \/ PairPoll("B")
    \/ PairPollIter("A")
    \/ PairPollIter("B")
    \/ PairCleanup("A")
    \/ PairCleanup("B")

SpecShut == Init /\ [][NextShut]_vars

\* two processes that connect, shut down and start again, and send no data; each may
\* build MaxSeq frames and be polled after the last
MayCall(s) == Small32(ctx[s].seq_tx) < MaxSeq
MayPoll(s) == Small32(ctx[s].seq_tx) <= MaxSeq
RestartTimeouts == {250}

RestartListen(s) == MayCall(s) /\ Listen(s) /\ UNCHANGED aux
RestartConnect(s) == MayCall(s) /\ Connect(s, {Ids[Other(s)]}) /\ UNCHANGED aux
RestartCleanup(s) == Cleanup(s) /\ UNCHANGED aux
RestartPoll(s) == MayPoll(s) /\ Poll(s, {NoArrival}, RestartTimeouts) /\ UNCHANGED aux
RestartPollIter(s) == MayPoll(s) /\ PollIter(s, {NoArrival}) /\ UNCHANGED aux

NextRestart ==
    \/ RestartListen("A")
    \/ RestartListen("B")
    \/ RestartConnect("A")
    \/ RestartConnect("B")
    \/ RestartCleanup("A")
    \/ RestartCleanup("B")
    \/ RestartPoll("A")
    \/ RestartPoll("B")
    \/ RestartPollIter("A")
    \/ RestartPollIter("B")

SpecRestart == Init /\ [][NextRestart]_vars

\* two processes that only call listen(), poll() and send()
NextDuo ==
    \/ PairListen("A")
    \/ PairListen("B")
    \/ PairSend("A")
    \/ PairSend("B")
    \/ PairPoll("A")
    \/ PairPoll("B")
    \/ PairPollIter("A")
    \/ PairPollIter("B")

SpecDuo == Init /\ [][NextDuo]_vars

\* ------------------------------------------- two processes polled alternately
AltTimeouts == {250, 1000, 2000}

\* each process calls raw_comm_listen once
AltListen(s) ==
    /\ ctx[s].state = RAW_STATE_DISCONNECTED
    /\ Listen(s)
    /\ UNCHANGED aux

\* then the processes are polled in turn, either first, every call with the same
\* timeout: a poll call of one begins when the other's has returned, and a poll cycle
\* is one call of each
Alternate(s) ==
    /\ \A t \in Sessions : ctx[t].state # RAW_STATE_DISCONNECTED
    /\ turn.who # s
    /\ turn.polls < 2 * MaxCycles \/ poll[s].active
    /\ UNCHANGED <<io, owed, waited>>

AltPoll(s) ==
    /\ Alternate(s)
    /\ Poll(s, {NoArrival}, IF turn.polls = 0 THEN AltTimeouts ELSE {turn.timeout})
    /\ turn' = [who |-> IF ev'.done THEN s ELSE turn.who,
                polls |-> IF ev'.done THEN turn.polls + 1 ELSE turn.polls,
                timeout |-> ev'.timeout]

AltPollIter(s) ==
    /\ Alternate(s)
    /\ PollIter(s, {NoArrival})
    /\ turn' = IF ev'.done THEN [turn EXCEPT !.who = s, !.polls = @ + 1] ELSE turn

NextAlt ==
    \/ AltListen("A")
    \/ AltListen("B")
    \/ AltPoll("A")
    \/ AltPoll("B")
    \/ AltPollIter("A")
    \/ AltPollIter("B")

SpecAlt == Init /\ [][NextAlt]_vars

\* ------------------------------- two processes, the transport system call by system call
\* raw_comm_connect toward the other process, once
OpenConnect(s) ==
    /\ ctx[s].state = RAW_STATE_DISCONNECTED
    /\ Connect(s, {Ids[Other(s)]})
    /\ UNCHANGED aux

\* a step inside a transport call
IoEvent(s, op) == [EnvEvent(op) EXCEPT !.who = s, !.done = FALSE]

\* raw_comm_recv begins: opendir, readdir and stat; with no file of another sender
\* sysfs_recv_message returns 0, and so does raw_comm_recv
RxScan(s) ==
    /\ ctx[s].state # RAW_STATE_DISCONNECTED
    /\ io[s].pc = "idle"
    /\ \E best \in BestChoices(mailbox, ctx[s]) :
         IF best = Zero32
         THEN /\ ev' = CallEvent(s, "recv", TRUE, RecvResult(ctx[s], NoRx, CtlBufSize - 1), NoRx)
              /\ UNCHANGED io
         ELSE /\ ev' = IoEvent(s, "scan")
              /\ io' = [io EXCEPT ![s] = [NoIo EXCEPT !.pc = "scanned", !.best = best]]
    /\ UNCHANGED <<ctx, mailbox, now, poll, nconn, turn, owed, waited>>

\* open(best_path, O_RDONLY) and read: up to max_len bytes of what the file holds now
RxRead(s) ==
    /\ io[s].pc = "scanned"
    /\ IF ~mailbox[io[s].best].exists
       THEN /\ ev' = CallEvent(s, "recv", TRUE,
                               RecvResult(ctx[s], [rc |-> -1, msg |-> <<>>], CtlBufSize - 1),
                               [rc |-> -1, msg |-> <<>>])
            /\ io' = [io EXCEPT ![s] = NoIo]
       ELSE \E n \in {Min(Len(mailbox[io[s].best].data), MsgBufSize)} :
            /\ ev' = IoEvent(s, "read")
            /\ io' = [io EXCEPT ![s].pc = "read", ![s].n = n,
                                ![s].msg = SubSeq(mailbox[io[s].best].data, 1, n)]
    /\ UNCHANGED <<ctx, mailbox, now, poll, nconn, turn, owed, waited>>

\* unlink(best_path) after msg was read from the file: the name goes, whatever the
\* file holds by then
Unlinked_IfAsRead(mb, best, msg) ==
    IF mb[best].data = msg THEN [mb EXCEPT ![best] = NoFile] ELSE mb
Unlinked(mb, best, msg) == [mb EXCEPT ![best] = NoFile]

\* unlink(best_path), whatever the file holds by now, and what raw_comm_recv does with
\* the bytes read, but for its sysfs_send_message; a descriptor another process holds
\* open for writing on the unlinked file no longer leads to a file of the directory
RxUnlink(s) ==
    /\ io[s].pc = "read"
    /\ \E rx \in {[rc |-> io[s].n, msg |-> io[s].msg]} :
       \E r \in {RecvResult(ctx[s], rx, CtlBufSize - 1)} :
         /\ ctx' = [ctx EXCEPT ![s] = r.ctx]
         /\ nconn' = [nconn EXCEPT ![s] = @ + Count(r.cbs, "connected")]
         /\ ev' = [CallEvent(s, "recv", r.out = <<>>, r, rx) EXCEPT !.sent = <<>>]
         /\ io' = [t \in Sessions |->
                     IF t = s
                     THEN IF r.out = <<>> THEN NoIo ELSE [NoIo EXCEPT !.pc = "send", !.out = r.out]
                     ELSE [io[t] EXCEPT !.live = @ /\ io[s].best # ctx[t].local_id]]
    /\ mailbox' = Unlinked(mailbox, io[s].best, io[s].msg)
    /\ UNCHANGED <<now, poll, turn, owed, waited>>

\* sysfs_send_message: open(path, O_WRONLY | O_CREAT | O_TRUNC) empties or creates the file
TxOpen(s) ==
    /\ io[s].pc = "send"
    /\ mailbox' = [mailbox EXCEPT ![ctx[s].local_id] = File(<<>>, now)]
    /\ io' = [io EXCEPT ![s].pc = "write", ![s].live = TRUE]
    /\ ev' = IoEvent(s, "open")
    /\ UNCHANGED <<ctx, now, poll, nconn, turn, owed, waited>>

\* sysfs_send_message: write and close; the bytes go to the file the descriptor was
\* opened on, which may have been unlinked since
TxWrite(s) ==
    /\ io[s].pc = "write"
    /\ mailbox' = IF io[s].live
                  THEN [mailbox EXCEPT ![ctx[s].local_id] = File(Head(io[s].out), now)]
                  ELSE mailbox
    /\ io' = [io EXCEPT ![s] = IF Tail(io[s].out) = <<>> THEN NoIo
                               ELSE [NoIo EXCEPT !.pc = "send", !.out = Tail(io[s].out)]]
    /\ ev' = [IoEvent(s, "write") EXCEPT !.done = Tail(io[s].out) = <<>>,
                                         !.sent = <<Head(io[s].out)>>]
    /\ UNCHANGED <<ctx, now, poll, nconn, turn, owed, waited>>

\* two processes that open toward each other and then receive, their system calls
\* interleaved
NextOpen ==
    \/ OpenConnect("A")
    \/ OpenConnect("B")
    \/ RxScan("A")
    \/ RxScan("B")
    \/ RxRead("A")
    \/ RxRead("B")
    \/ RxUnlink("A")
    \/ RxUnlink("B")
    \/ TxOpen("A")
    \/ TxOpen("B")
    \/ TxWrite("A")
    \/ TxWrite("B")
    \/ Tick /\ UNCHANGED aux

SpecOpen == Init /\ [][NextOpen]_vars

\* ------------------------------------------------ one process waiting for a peer
DetectTimeouts == {250, 1000, 2000}

\* what may lie in the directory while the process waits: nothing, a peer's DISCOVERY,
\* a buffer that does not parse
DetectArrivals ==
    { NoArrival,
      <<Ids["B"], PeerFrame(Ids["B"], Zero32, RAW_MSG_DISCOVERY, DiscoverPayload(Ids["B"]))>>,
      <<Ids["B"], WrongMagic>> }

\* the step of process s sent DISCOVERY
SentDiscovery(e) == \E i \in 1..Len(e.sent) : e.sent[i][6] = RAW_MSG_DISCOVERY

\* bookkeeping of a pass of the poll loop of process s: the usleep of the pass adds to
\* the time s has polled as Detecting since it last sent DISCOVERY
Wait(s) ==
    waited' = [waited EXCEPT ![s] =
                 IF SentDiscovery(ev') \/ ctx'[s].state # RAW_STATE_DETECTING THEN 0
                 ELSE @ + (ev'.elapsed - (IF poll[s].active THEN poll[s].elapsed ELSE 0))]

DetectListen(s) ==
    /\ ctx[s].state = RAW_STATE_DISCONNECTED
    /\ Listen(s)
    /\ waited' = [waited EXCEPT ![s] = 0]
    /\ UNCHANGED <<io, turn, owed>>

DetectPoll(s) ==
    /\ ctx[s].state = RAW_STATE_DETECTING /\ SeqOk(s) /\ waited[s] < MaxWait
    /\ Poll(s, DetectArrivals, DetectTimeouts)
    /\ Wait(s)
    /\ UNCHANGED <<io, turn, owed>>

DetectPollIter(s) ==
    /\ PollIter(s, DetectArrivals)
    /\ Wait(s)
    /\ UNCHANGED <<io, turn, owed>>

\* the loop of run_raw_mode before a peer is found: listen, then poll again and again
NextDetect ==
    \/ DetectListen("A")
    \/ DetectPoll("A")
    \/ DetectPollIter("A")

SpecDetect == Init /\ [][NextDetect]_vars

\* ------------------------------------ one process calling a peer that may not answer
LoneTimeouts == {250, 1000}

\* what may lie in the directory while the process polls: nothing, the peer's answer to
\* DISCOVERY or to HANDSHAKE, a DATA frame, a buffer that does not parse
LoneArrivals ==
    { NoArrival,
      <<Ids["B"], PeerFrame(Ids["B"], Ids["A"], RAW_MSG_DISCOVERY_ACK, AckPayload(Ids["B"]))>>,
      <<Ids["B"], PeerFrame(Ids["B"], Ids["A"], RAW_MSG_HANDSHAKE_ACK, HshakeAckPayload(Ids["B"]))>>,
      <<Ids["B"], PeerFrame(Ids["B"], Ids["A"], RAW_MSG_DATA, Ping)>>,
      <<Ids["B"], WrongMagic>> }

LoneListen(s) ==
    /\ ctx[s].state = RAW_STATE_DISCONNECTED
    /\ Listen(s)
    /\ UNCHANGED aux

LoneConnect(s) ==
    /\ ctx[s].state \in {RAW_STATE_DISCONNECTED, RAW_STATE_DETECTING} /\ SeqOk(s)
    /\ Connect(s, {Ids["B"]})
    /\ UNCHANGED aux

LonePoll(s) ==
    /\ SeqOk(s)
    /\ Poll(s, LoneArrivals, LoneTimeouts)
    /\ UNCHANGED aux

LonePollIter(s) ==
    /\ PollIter(s, LoneArrivals)
    /\ UNCHANGED aux

\* listen or connect, then poll for as long as the process runs, as run_raw_mode does
NextLone ==
    \/ LoneListen("A")
    \/ LoneConnect("A")
    \/ LonePoll("A")
    \/ LonePollIter("A")

SpecLone ==
    Init /\ [][NextLone]_vars /\ WF_vars(LonePoll("A")) /\ WF_vars(LonePollIter("A"))

\* ------------------------------------------- one process on a transport that may fail
\* sysfs_send_message fails when open fails (the file is left as it was) or when write
\* writes less than the frame (the file, truncated by open, holds what was written)
SendFaults == {"open", "write"}
FailedSend(mb, c, msg, t, fault) ==
    IF fault = "open" THEN {mb}
    ELSE {[mb EXCEPT ![c.local_id] = File(SubSeq(msg, 1, n), t)] : n \in {0, Len(msg) - 1}}

\* sysfs_recv_message fails when opendir fails, when open of the chosen file fails (the
\* file stays), or when read fails (the file is unlinked all the same)
RecvFaults == {"opendir", "open", "read"}
FailedRecv(mb, c, best, fault) ==
    [rc |-> -1, msg |-> <<>>,
     mb |-> IF fault = "read" /\ best # Zero32 THEN [mb EXCEPT ![best] = NoFile] ELSE mb]

FaultTimeouts == {100, 250}
FaultArrivals ==
    { NoArrival,
      <<Ids["B"], PeerFrame(Ids["B"], Ids["A"], RAW_MSG_HANDSHAKE_ACK, HshakeAckPayload(Ids["B"]))>>,
      <<Ids["B"], PeerFrame(Ids["B"], Ids["A"], RAW_MSG_DATA, Ping)>> }

FaultConnect(s) ==
    /\ ctx[s].state = RAW_STATE_DISCONNECTED
    /\ Connect(s, {Ids["B"]})
    /\ UNCHANGED aux

\* raw_comm_send; when the transport fails, the call returns what sysfs_send_message does
FaultSend(s) ==
    /\ ~poll[s].active /\ SeqOk(s)
    /\ \E data \in {<<>>, Ping}, fault \in SendFaults \cup {"none"} :
       \E r \in {raw_comm_send(ctx[s], data)} :
         IF fault = "none" \/ r.out = <<>>
         THEN /\ Finish(s, "send", r, mailbox, NoRx)
              /\ fault = "none"
         ELSE /\ ctx' = [ctx EXCEPT ![s] = r.ctx]
              /\ mailbox' \in FailedSend(mailbox, ctx[s], r.out[1], now, fault)
              /\ ev' = [CallEvent(s, "send", TRUE, [r EXCEPT !.ret = -1, !.out = <<>>], NoRx)
                           EXCEPT !.data = <<fault>>]
              /\ UNCHANGED <<now, poll, nconn>>
    /\ UNCHANGED aux

\* a pass of raw_comm_poll's loop, its sysfs_recv_message succeeding or failing
FaultPass(s, timeout_ms, elapsed, attempts) ==
    \E w \in FaultArrivals : \E mb \in {Arrive(mailbox, w, now)} :
    \E best \in BestChoices(mb, ctx[s]) :
    \E rx \in {sysfs_recv_message(mb, ctx[s], best, MsgBufSize)}
              \cup {FailedRecv(mb, ctx[s], best, fault) : fault \in RecvFaults} :
        PollWith(s, rx, timeout_ms, elapsed, attempts)

FaultPoll(s) ==
    /\ ~poll[s].active /\ SeqOk(s)
    /\ \E timeout_ms \in FaultTimeouts : FaultPass(s, timeout_ms, 0, 0)
    /\ UNCHANGED aux

FaultPollIter(s) ==
    /\ poll[s].active
    /\ FaultPass(s, poll[s].timeout, poll[s].elapsed, poll[s].attempts)
    /\ UNCHANGED aux

NextFault ==
    \/ FaultConnect("A")
    \/ FaultSend("A")
    \/ FaultPoll("A")
    \/ FaultPollIter("A")

SpecFault == Init /\ [][NextFault]_vars

\* ------------------------------------------- the directory with several senders
\* processes B and C write while process A receives
Writers == {"B", "C"}
BoxId(w) == IF w = "C" THEN IdC ELSE Ids[w]
BoxFrames(w) ==
    { PeerFrame(BoxId(w), Zero32, RAW_MSG_DATA, Ping),
      PeerFrame(BoxId(w), Zero32, RAW_MSG_DISCOVERY, DiscoverPayload(BoxId(w))) }

\* sysfs_send_message by writer w
BoxWrite(w) ==
    /\ \E msg \in BoxFrames(w) :
         /\ mailbox' = sysfs_send_message(mailbox, [local_id |-> BoxId(w)], msg, now)
         /\ ev' = [EnvEvent("write") EXCEPT !.who = w, !.sent = <<msg>>, !.ret = Len(msg)]
    /\ UNCHANGED <<ctx, now, poll, nconn, aux>>

\* process A writes its own file: the DISCOVERY of listen()
BoxListen(s) ==
    /\ ctx[s].state = RAW_STATE_DISCONNECTED
    /\ Listen(s)
    /\ UNCHANGED aux

BoxCleanup(s) ==
    /\ ctx[s].state = RAW_STATE_DETECTING /\ SeqOk(s)
    /\ Cleanup(s)
    /\ UNCHANGED aux

\* raw_comm_recv by a process that is not listening: whatever it reads, it sends nothing
BoxRecv(s) ==
    /\ ctx[s].state = RAW_STATE_DISCONNECTED
    /\ Recv(s, {NoArrival})
    /\ UNCHANGED aux

BoxTick ==
    /\ Tick
    /\ UNCHANGED aux

NextBox ==
    \/ \E w \in Writers : BoxWrite(w)
    \/ BoxListen("A")
    \/ BoxCleanup("A")
    \/ BoxRecv("A")
    \/ BoxTick

SpecBox == Init /\ [][NextBox]_vars

\* ------------------------------------------------------ the codec on its own
\* process B encodes, and process A decodes and handles what B encoded
SeqStarts == {Zero32, <<255, 255, 0, 0>>, <<254, 255, 255, 255>>}
CodecTypes == {RAW_MSG_DISCOVERY, RAW_MSG_HANDSHAKE, RAW_MSG_DATA, RAW_MSG_DISCONNECT}
Largest == [i \in 1..(MsgBufSize - HeaderSize) |-> (i * 7) % 256]
CodecPayloads == {<<>>, Ping, Largest, Oversize}
CodecSizes == {CtlBufSize, MsgBufSize}

\* ways a buffer may differ from the frame that was encoded
Defects ==
    { {}, {"short"}, {"magic"}, {"version"}, {"length"}, {"checksum"},
      {"short", "magic"}, {"magic", "version"}, {"magic", "length"}, {"version", "length"},
      {"magic", "version", "length"}, {"short", "magic", "version", "length", "checksum"} }
Damaged(msg, d) ==
    LET n == Len(msg) - HeaderSize + 1
        m == [i \in 1..Len(msg) |->
                IF i = 4 /\ "magic" \in d THEN 112
                ELSE IF i = 5 /\ "version" \in d THEN RAW_PROTOCOL_VERSION + 1
                ELSE IF i = 7 /\ "length" \in d THEN n % 256
                ELSE IF i = 8 /\ "length" \in d THEN n \div 256
                ELSE IF i = 21 /\ "checksum" \in d THEN (msg[i] + 1) % 256
                ELSE msg[i]]
    IN IF "short" \in d THEN SubSeq(m, 1, HeaderSize - 1) ELSE m

\* the contexts a receiver is in after listen, after connect, and once Connected
Receivers ==
    { raw_comm_listen(raw_comm_init(Seed["A"])).ctx,
      raw_comm_connect(raw_comm_init(Seed["A"]), Ids["B"]).ctx,
      [raw_comm_connect(raw_comm_init(Seed["A"]), Ids["B"]).ctx
          EXCEPT !.state = RAW_STATE_CONNECTED] }

InitCodec ==
    /\ \E q \in SeqStarts, p \in {Zero32, Ids["A"]}, rcv \in Receivers :
         ctx = [A |-> rcv, B |-> [raw_comm_init(Seed["B"]) EXCEPT !.seq_tx = q, !.peer_id = p]]
    /\ mailbox = [id \in AllIds |-> NoFile]
    /\ now = 1
    /\ poll = [s \in Sessions |-> Idle]
    /\ ev = [op |-> "init", n |-> 0]
    /\ nconn = [s \in Sessions |-> 0]
    /\ io = [s \in Sessions |-> NoIo]
    /\ turn = [who |-> "", polls |-> 0, timeout |-> 0]
    /\ owed = [s \in Sessions |-> NoDebt]
    /\ waited = [s \in Sessions |-> 0]

\* build_message by B, up to MaxFrames times in a row
Encode ==
    /\ ev.op \in {"init", "encode"} /\ ev.n < MaxFrames
    /\ \E msg_type \in CodecTypes, payload \in CodecPayloads, size \in CodecSizes :
       \E b \in {build_message(ctx["B"], msg_type, payload, size)} :
         /\ Len(payload) > Len(Ping) => msg_type = RAW_MSG_DATA
         /\ ctx' = [ctx EXCEPT !["B"] = b.ctx]
         /\ ev' = [op |-> "encode", n |-> ev.n + 1, msg_type |-> msg_type, payload |-> payload,
                   size |-> size, rc |-> b.rc, msg |-> b.msg, by |-> ctx["B"]]
    /\ UNCHANGED <<mailbox, now, poll, nconn, aux>>

\* parse_message on what was encoded, intact or damaged
Decode ==
    /\ ev.op = "encode" /\ ev.rc > 0
    /\ \E d \in Defects : \E input \in {Damaged(ev.msg, d)} :
       \E p \in {parse_message(input, MsgBufSize)} :
         ev' = [op |-> "decode", n |-> ev.n, msg_type |-> ev.msg_type, payload |-> ev.payload,
                msg |-> ev.msg, by |-> ev.by, defects |-> d, input |-> input, rc |-> p.rc,
                hdr |-> p.hdr, out |-> p.payload]
    /\ UNCHANGED <<ctx, mailbox, now, poll, nconn, aux>>

\* raw_comm_recv by A on what was encoded, as it is or with the checksum field changed
Deliver ==
    /\ ev.op = "encode" /\ ev.rc > 0
    /\ \E d \in {{}, {"checksum"}} : \E input \in {Damaged(ev.msg, d)} :
       \E r \in {HandleMessage(ctx["A"], input, CtlBufSize - 1)} :
         /\ ctx' = [ctx EXCEPT !["A"] = r.ctx]
         /\ ev' = [op |-> "deliver", n |-> ev.n, msg_type |-> ev.msg_type, msg |-> ev.msg,
                   defects |-> d, input |-> input, result |-> r]
    /\ UNCHANGED <<mailbox, now, poll, nconn, aux>>

NextCodec ==
    \/ Encode
    \/ Decode
    \/ Deliver

SpecCodec == InitCodec /\ [][NextCodec]_vars

\* ------------------------------------------------------------ claims, one process
\* what a received buffer is, read off its bytes
Decodable(msg) ==
    /\ Len(msg) >= 24
    /\ <<msg[1], msg[2], msg[3], msg[4]>> = <<85, 67, 78, 80>>
    /\ msg[5] = 1
    /\ Len(msg) >= 24 + msg[7] + 256 * msg[8]
TypeOf(msg) == msg[6]
SrcOf(msg) == <<msg[9], msg[10], msg[11], msg[12]>>
DstOf(msg) == <<msg[13], msg[14], msg[15], msg[16]>>

\* the step is a receive attempt (of raw_comm_recv, called directly or by the poll
\* loop) that read a non-empty buffer
Received(e) == e.op \in {"recv", "poll"} /\ e.rx.rc > 0
ReceivedFrame(e, msg_type) == Received(e) /\ Decodable(e.rx.msg) /\ TypeOf(e.rx.msg) = msg_type

\* the step is a receive of HANDSHAKE from the recorded peer by a Connected process
DuplicateHandshake ==
    /\ ReceivedFrame(ev', RAW_MSG_HANDSHAKE)
    /\ ctx[ev'.who].state = RAW_STATE_CONNECTED
    /\ SrcOf(ev'.rx.msg) = ctx[ev'.who].peer_id

\* C2: send() while the session is not Connected returns an error, writes nothing to
\* the transport, and leaves state, peer_id and seq_tx (the whole context) unchanged.
C2_SendNotConnected ==
    [][(ev'.op = "send" /\ ctx[ev'.who].state # RAW_STATE_CONNECTED)
          => (ev'.ret < 0 /\ ev'.sent = <<>> /\ mailbox' = mailbox /\ ctx' = ctx)]_vars

C2_Witness ==
    /\ ev.op = "send" /\ ev.ret < 0
    /\ ctx[ev.who].state = RAW_STATE_HANDSHAKING
    /\ mailbox[ctx[ev.who].local_id].exists

\* C4: a duplicate HANDSHAKE from the recorded peer, received while Connected, leaves
\* the state Connected and peer_id unchanged and invokes no connected callback.
C4_DuplicateHandshakeIdempotent ==
    [][DuplicateHandshake
          => /\ ctx'[ev'.who].state = RAW_STATE_CONNECTED
             /\ ctx'[ev'.who].peer_id = ctx[ev'.who].peer_id
             /\ Count(ev'.cbs, "connected") = 0
             /\ nconn' = nconn]_vars

C4_Witness ==
    /\ ReceivedFrame(ev, RAW_MSG_HANDSHAKE)
    /\ ctx[ev.who].state = RAW_STATE_CONNECTED
    /\ SrcOf(ev.rx.msg) = ctx[ev.who].peer_id
    /\ ev.cbs = <<>>
    /\ nconn[ev.who] = 1

\* C5: a Connected session that receives a second HANDSHAKE from its recorded peer
\* re-sends HANDSHAKE_ACK to that peer, and does nothing else.
C5_DuplicateHandshakeReAcked ==
    [][DuplicateHandshake
          => /\ Len(ev'.sent) = 1
             /\ Decodable(ev'.sent[1])
             /\ TypeOf(ev'.sent[1]) = RAW_MSG_HANDSHAKE_ACK
             /\ DstOf(ev'.sent[1]) = ctx[ev'.who].peer_id
             /\ ctx'[ev'.who].state = RAW_STATE_CONNECTED
             /\ ctx'[ev'.who].peer_id = ctx[ev'.who].peer_id
             /\ ev'.cbs = <<>>]_vars

\* the receive attempt read a non-empty buffer that does not decode
Undecodable(e) == Received(e) /\ ~Decodable(e.rx.msg)

\* the pass of the poll loop ended with the periodic DISCOVERY (c: the context before)
Reannounced(e, c) ==
    e.op = "poll" /\ e.attempts > 0 /\ c.state = RAW_STATE_DETECTING /\ e.elapsed > 0
                  /\ e.elapsed % 2000 = 0

\* the process did what it does when nothing is pending: nothing, or in the poll loop
\* its periodic DISCOVERY
AsIfNothingPending ==
    /\ ev'.cbs = <<>>
    /\ nconn' = nconn
    /\ IF Reannounced(ev', ctx[ev'.who])
       THEN /\ ctx' = [ctx EXCEPT ![ev'.who].seq_tx = Inc32(@)]
            /\ Len(ev'.sent) = 1 /\ TypeOf(ev'.sent[1]) = RAW_MSG_DISCOVERY
       ELSE /\ ctx' = ctx
            /\ ev'.sent = <<>>
            /\ mailbox'[ctx[ev'.who].local_id] = mailbox[ctx[ev'.who].local_id]

\* C7 as stated: an undecodable buffer causes no transition, no change of peer_id or
\* seq_tx, no outbound frame, no callback, and no error result for the caller.
C7_UndecodableDroppedSilently ==
    [][Undecodable(ev') => (AsIfNothingPending /\ ev'.ret >= 0)]_vars

\* C7 as amended: an undecodable buffer causes no transition, no change of peer_id or
\* seq_tx, no outbound frame and no callback; poll() does not report it (the pass
\* yields 0), while raw_comm_recv() called directly returns -1.
C7_UndecodableDroppedByPoll ==
    [][Undecodable(ev')
          => /\ AsIfNothingPending
             /\ ev'.op = "poll" => ev'.ret = 0
             /\ ev'.op = "recv" => ev'.ret = -1]_vars

C7_Witness ==
    /\ ev.op = "poll" /\ Undecodable(ev) /\ ev.rx.msg = WrongMagic
    /\ ev.ret = 0 /\ ~ev.done
    /\ ctx[ev.who].state = RAW_STATE_DETECTING

\* C8: poll() returns before its timeout with a positive result (the payload length)
\* in the pass that delivers a DATA payload, and returns 0 before its timeout in the
\* pass after which the session is Connected with no payload delivered.
C8_PollReturnsEarly ==
    [][(ev'.op = "poll" /\ ev'.attempts > 0)
          => /\ Count(ev'.cbs, "data") > 0
                  => (ev'.done /\ ev'.ret > 0 /\ ev'.ret = Len(ev'.data) /\ ev'.buf = ev'.data
                      /\ ev'.elapsed < ev'.timeout)
             /\ (Count(ev'.cbs, "data") = 0 /\ ctx'[ev'.who].state = RAW_STATE_CONNECTED)
                  => (ev'.done /\ ev'.ret = 0 /\ ev'.elapsed < ev'.timeout)]_vars

C8_Witness ==
    /\ ev.op = "poll" /\ ev.done /\ ev.ret = 0 /\ ev.cbs = <<"connected">>
    /\ ev.attempts = 2 /\ ev.elapsed = 100 /\ ev.timeout = 2000
    /\ ctx[ev.who].state = RAW_STATE_CONNECTED

\* C9 as stated: a poll() that returns because the session became Connected yields a
\* result different from the one a timeout yields (0).
C9_StateChangeDistinctFromTimeout ==
    [][(ev'.op = "poll" /\ ev'.done /\ Count(ev'.cbs, "connected") > 0) => ev'.ret # 0]_vars

\* C9 as amended: the result of poll() distinguishes two outcomes: positive (the
\* length) exactly when a DATA payload was delivered, and 0 otherwise, whether the
\* timeout elapsed or the session is Connected.
C9_PollResultTwoOutcomes ==
    [][(ev'.op = "poll" /\ ev'.done)
          => /\ ev'.ret > 0 <=> Count(ev'.cbs, "data") > 0
             /\ ev'.ret > 0 => ev'.ret = Len(ev'.data)
             /\ ev'.ret <= 0 => ev'.ret = 0]_vars

C9_Witness ==
    /\ ev.op = "poll" /\ ev.done /\ ev.ret = 0 /\ ev.cbs = <<"connected">>
    /\ ev.elapsed < ev.timeout

\* C10: poll(timeout) makes at most ceil(timeout / 100) receive attempts, none when
\* timeout <= 0; every pass that does not return adds 100 ms to the elapsed time, which
\* stays below the timeout; and when the timeout elapses with no payload delivered and
\* the session not Connected the result is 0; the result is never negative.
C10_PollTerminates ==
    [][ev'.op = "poll"
          => /\ ev'.timeout <= 0 => (ev'.attempts = 0 /\ ev'.done /\ ev'.ret = 0)
             /\ ev'.attempts > 0 => (ev'.attempts - 1) * 100 < ev'.timeout
             /\ ~ev'.done => (ev'.elapsed = ev'.attempts * 100 /\ ev'.elapsed < ev'.timeout
                              /\ poll'[ev'.who].active)
             /\ ev'.done => (ev'.ret >= 0 /\ ~poll'[ev'.who].active)
             /\ (ev'.done /\ Count(ev'.cbs, "data") = 0
                   /\ ctx'[ev'.who].state # RAW_STATE_CONNECTED)
                  => (ev'.ret = 0 /\ ev'.elapsed >= ev'.timeout)]_vars

C10_Witness ==
    /\ ev.op = "poll" /\ ev.done /\ ev.ret = 0
    /\ ev.timeout = 250 /\ ev.attempts = 3 /\ ev.elapsed = 300
    /\ Undecodable(ev)
    /\ ctx[ev.who].state = RAW_STATE_HANDSHAKING

\* ------------------------------------------------------------ claims, two processes
\* the step ends a poll call of a process that is owed a payload
OwedPollReturns == ev'.op = "poll" /\ ev'.done /\ owed[ev'.who].pending

Delivered(e, p) == e.ret > 0 /\ e.ret = Len(p) /\ e.buf = p /\ e.data = p

Converged ==
    \A s \in Sessions :
        ctx[s].state = RAW_STATE_CONNECTED /\ ctx[s].peer_id = Ids[Other(s)]

\* C1: two processes that have each called listen() and are then polled alternately
\* are both Connected, each with the other's identity as peer_id, once MaxCycles
\* poll cycles have been made.
C1_HandshakeConverges ==
    (turn.polls >= 2 * MaxCycles /\ \A s \in Sessions : ~poll[s].active) => Converged

\* --------------------------------------------------- claims, simultaneous open
\* both processes have opened, neither is inside a call, and no file is left to read
Settled ==
    \A s \in Sessions :
        /\ ctx[s].state # RAW_STATE_DISCONNECTED
        /\ io[s].pc = "idle"
        /\ ~mailbox[ctx[s].local_id].exists

\* C6: after both processes have sent HANDSHAKE toward each other from Handshaking,
\* whatever the interleaving of their send and receive steps, once nothing is left to
\* do both are Connected with each other as peer and each has invoked its connected
\* callback exactly once.
C6_SimultaneousOpenConverges ==
    Settled => (Converged /\ \A s \in Sessions : nconn[s] = 1)

\* --------------------------------------------------- claims, waiting for a peer
\* C11: while a process stays Detecting and keeps being polled, it re-sends DISCOVERY
\* each time about 2000 ms of polling have elapsed, whatever the timeouts of the calls:
\* the polling time since its last DISCOVERY never exceeds 2000 ms by a poll interval.
C11_ReannouncedEveryPeriod ==
    \A s \in Sessions : waited[s] < RediscoverPeriod + PollInterval

\* --------------------------------------------------- claims, the transition table
\* the one frame the step sent has type msg_type and destination dst
SentOne(e, msg_type, dst) ==
    /\ Len(e.sent) = 1
    /\ Decodable(e.sent[1])
    /\ TypeOf(e.sent[1]) = msg_type
    /\ DstOf(e.sent[1]) = dst

\* C12: listen() called in Disconnected, however the process came to be Disconnected,
\* moves it to Detecting and sends exactly one DISCOVERY with dst_id 0.
C12_ListenBroadcasts ==
    [][(ev'.op = "listen" /\ ctx[ev'.who].state = RAW_STATE_DISCONNECTED)
          => /\ ctx'[ev'.who].state = RAW_STATE_DETECTING
             /\ SentOne(ev', RAW_MSG_DISCOVERY, Zero32)]_vars

\* the frames the receive itself sent: those of the step, but for the DISCOVERY that
\* a pass of the poll loop may add after it
HandlerSent(e) ==
    IF e.op = "poll" /\ e.sent # <<>> /\ TypeOf(e.sent[Len(e.sent)]) = RAW_MSG_DISCOVERY
    THEN [e EXCEPT !.sent = SubSeq(e.sent, 1, Len(e.sent) - 1)]
    ELSE e

\* the step is a receive of a frame of type msg_type by a process in one of states
Receives(msg_type, states) ==
    ReceivedFrame(ev', msg_type) /\ ctx[ev'.who].state \in states

\* C13: a Detecting process that receives DISCOVERY from X records peer_id = X, sends
\* exactly one DISCOVERY_ACK with dst_id = X, and stays Detecting.
C13_DiscoveryAnswered ==
    [][Receives(RAW_MSG_DISCOVERY, {RAW_STATE_DETECTING})
          => /\ ctx'[ev'.who].peer_id = SrcOf(ev'.rx.msg)
             /\ ctx'[ev'.who].state = RAW_STATE_DETECTING
             /\ SentOne(HandlerSent(ev'), RAW_MSG_DISCOVERY_ACK, SrcOf(ev'.rx.msg))
             /\ ev'.cbs = <<>>]_vars

C13_Witness ==
    /\ ReceivedFrame(ev, RAW_MSG_DISCOVERY)
    /\ ctx[ev.who].state = RAW_STATE_DETECTING
    /\ ctx[ev.who].peer_id = Ids["B"]
    /\ SentOne(HandlerSent(ev), RAW_MSG_DISCOVERY_ACK, Ids["B"])

\* C14: a Detecting process that receives DISCOVERY_ACK from X records peer_id = X,
\* sends exactly one HANDSHAKE with dst_id = X, and moves to Handshaking.
C14_DiscoveryAckStartsHandshake ==
    [][Receives(RAW_MSG_DISCOVERY_ACK, {RAW_STATE_DETECTING})
          => /\ ctx'[ev'.who].peer_id = SrcOf(ev'.rx.msg)
             /\ ctx'[ev'.who].state = RAW_STATE_HANDSHAKING
             /\ SentOne(ev', RAW_MSG_HANDSHAKE, SrcOf(ev'.rx.msg))
             /\ ev'.cbs = <<>>]_vars

C14_Witness ==
    /\ ReceivedFrame(ev, RAW_MSG_DISCOVERY_ACK)
    /\ ctx[ev.who].state = RAW_STATE_HANDSHAKING
    /\ ctx[ev.who].peer_id = Ids["B"]
    /\ SentOne(ev, RAW_MSG_HANDSHAKE, Ids["B"])

\* C15: a Detecting or Handshaking process that receives HANDSHAKE from X records
\* peer_id = X in place of any earlier peer, sends exactly one HANDSHAKE_ACK with
\* dst_id = X, invokes the connected callback once, and moves to Connected.
C15_HandshakeAccepted ==
    [][Receives(RAW_MSG_HANDSHAKE, {RAW_STATE_DETECTING, RAW_STATE_HANDSHAKING})
          => /\ ctx'[ev'.who].peer_id = SrcOf(ev'.rx.msg)
             /\ ctx'[ev'.who].state = RAW_STATE_CONNECTED
             /\ SentOne(ev', RAW_MSG_HANDSHAKE_ACK, SrcOf(ev'.rx.msg))
             /\ ev'.cbs = <<"connected">>
             /\ nconn'[ev'.who] = nconn[ev'.who] + 1]_vars

\* Handshaking toward B, the process took the HANDSHAKE of the third process
C15_Witness ==
    /\ ReceivedFrame(ev, RAW_MSG_HANDSHAKE)
    /\ SrcOf(ev.rx.msg) = IdC
    /\ ctx[ev.who].state = RAW_STATE_CONNECTED
    /\ ctx[ev.who].peer_id = IdC
    /\ Small32(ctx[ev.who].seq_tx) = 2
    /\ SentOne(ev, RAW_MSG_HANDSHAKE_ACK, IdC)
    /\ ev.cbs = <<"connected">>

\* C16: a Handshaking process becomes Connected, invoking the connected callback, on
\* HANDSHAKE_ACK from its recorded peer, and a HANDSHAKE_ACK from any other identity
\* leaves it Handshaking with no callback.
C16_HandshakeAckFromPeerOnly ==
    [][Receives(RAW_MSG_HANDSHAKE_ACK, {RAW_STATE_HANDSHAKING})
          => IF SrcOf(ev'.rx.msg) = ctx[ev'.who].peer_id
             THEN ctx'[ev'.who].state = RAW_STATE_CONNECTED /\ ev'.cbs = <<"connected">>
             ELSE ctx'[ev'.who].state = RAW_STATE_HANDSHAKING /\ ev'.cbs = <<>>]_vars

\* C17: a Connected process that receives DISCONNECT clears peer_id to 0, invokes the
\* disconnected callback once, and moves to Disconnected.
C17_DisconnectReceived ==
    [][Receives(RAW_MSG_DISCONNECT, {RAW_STATE_CONNECTED})
          => /\ ctx'[ev'.who].peer_id = Zero32
             /\ ctx'[ev'.who].state = RAW_STATE_DISCONNECTED
             /\ ev'.cbs = <<"disconnected">>
             /\ ev'.sent = <<>>]_vars

C17_Witness ==
    /\ ReceivedFrame(ev, RAW_MSG_DISCONNECT)
    /\ ev.cbs = <<"disconnected">>
    /\ nconn[ev.who] = 1
    /\ ctx[ev.who].state = RAW_STATE_DISCONNECTED
    /\ ctx[ev.who].peer_id = Zero32

\* C18: connect(peer_id) in any state, Connected included, sets peer_id, sends exactly
\* one HANDSHAKE with dst_id = peer_id, and leaves the process Handshaking.
C18_ConnectFromAnyState ==
    [][ev'.op = "connect"
          => /\ ctx'[ev'.who].state = RAW_STATE_HANDSHAKING
             /\ SentOne(ev', RAW_MSG_HANDSHAKE, ctx'[ev'.who].peer_id)
             /\ SrcOf(ev'.sent[1]) = ctx[ev'.who].local_id
             /\ ctx'[ev'.who].peer_id \in PeerArgs
             /\ mailbox'[ctx[ev'.who].local_id].data = ev'.sent[1]]_vars

\* connect(C) by a process that was Connected to B
C18_Witness ==
    /\ ev.op = "connect"
    /\ nconn[ev.who] = 1
    /\ ctx[ev.who].state = RAW_STATE_HANDSHAKING
    /\ ctx[ev.who].peer_id = IdC
    /\ SentOne(ev, RAW_MSG_HANDSHAKE, IdC)

\* C19 as stated: connect() called while not Connected returns an error and sends
\* nothing.
C19_ConnectFailsFast ==
    [][(ev'.op = "connect" /\ ctx[ev'.who].state # RAW_STATE_CONNECTED)
          => (ev'.ret < 0 /\ ev'.sent = <<>> /\ mailbox' = mailbox)]_vars

\* C19 as amended: connect() never fails: whatever the state, Connected or not, it
\* returns 0 at once, having written its one HANDSHAKE frame to the transport.
C19_ConnectNeverFails ==
    [][ev'.op = "connect"
          => /\ ev'.ret = 0 /\ ev'.done
             /\ Len(ev'.sent) = 1
             /\ mailbox'[ctx[ev'.who].local_id] = File(ev'.sent[1], now)]_vars

C19_Witness ==
    /\ ev.op = "connect" /\ ev.ret = 0
    /\ nconn[ev.who] = 0
    /\ Small32(ctx[ev.who].seq_tx) = 1
    /\ mailbox[ctx[ev.who].local_id] = File(ev.sent[1], now)

\* C20: whatever calls are made and whatever frames are received, well-formed or not,
\* the state of a process is Disconnected, Detecting, Handshaking or Connected, never
\* Error.
C20_ErrorUnreachable ==
    \A s \in Sessions :
        ctx[s].state \in {RAW_STATE_DISCONNECTED, RAW_STATE_DETECTING,
                          RAW_STATE_HANDSHAKING, RAW_STATE_CONNECTED}

\* a Connected process whose raw_comm_recv failed on a malformed buffer
C20_Witness ==
    /\ ev.op = "recv" /\ Undecodable(ev) /\ ev.ret = -1
    /\ ev.rx.msg = CutPayload
    /\ ctx[ev.who].state = RAW_STATE_CONNECTED

\* --------------------------------------------------- claims, identity and sequence
\* words /dev/urandom may deliver
RandomWords == {Zero32, <<255, 255, 255, 127>>, <<0, 0, 0, 128>>, <<7, 1, 0, 255>>, Seed["A"]}

\* C21: the local identity has bit 31 set, so is not 0, from init on; no operation
\* changes it; and every frame a process sends carries it as src_id.
C21_LocalIdFixed ==
    /\ \A r \in RandomWords : generate_local_id(r)[4] >= 128 /\ generate_local_id(r) # Zero32
    /\ \A s \in Sessions :
         /\ ctx[s].local_id = generate_local_id(Seed[s])
         /\ ctx[s].local_id[4] >= 128
         /\ ctx[s].local_id # Zero32
    /\ \A i \in 1..Len(ev.sent) :
         Decodable(ev.sent[i]) /\ SrcOf(ev.sent[i]) = ctx[ev.who].local_id

\* after listen, connect, receive, send and cleanup the identity is the one of init
C21_Witness ==
    /\ ev.op = "cleanup"
    /\ nconn[ev.who] = 1
    /\ Small32(ctx[ev.who].seq_tx) = 3
    /\ ctx[ev.who].local_id = <<1, 0, 0, 128>>
    /\ mailbox[ctx[ev.who].local_id].exists
    /\ SrcOf(mailbox[ctx[ev.who].local_id].data) = <<1, 0, 0, 128>>
    /\ TypeOf(mailbox[ctx[ev.who].local_id].data) = RAW_MSG_DATA

\* the frame with its seq field set to q
Resequenced(msg, q) == [i \in 1..Len(msg) |-> IF i \in 17..20 THEN q[i - 16] ELSE msg[i]]
SeqOf(msg) == <<msg[17], msg[18], msg[19], msg[20]>>

\* C29: a received frame is handled whatever its seq: as the same frame with any other
\* seq would be, be it a repeat of one already received; and seq_rx stays 0.
C29_SeqIgnored ==
    [][/\ \A s \in Sessions : ctx'[s].seq_rx = Zero32
       /\ (ev'.op = "recv" /\ Received(ev') /\ Decodable(ev'.rx.msg))
            => \A q \in {<<1, 0, 0, 0>>, <<255, 255, 255, 255>>} :
                 \E max_len \in RecvLens :
                 \E r \in {HandleMessage(ctx[ev'.who], Resequenced(ev'.rx.msg, q), max_len)} :
                    /\ ctx'[ev'.who] = r.ctx
                    /\ ev'.ret = r.ret /\ ev'.cbs = r.cbs /\ ev'.buf = r.buf
                    /\ ev'.data = r.data /\ ev'.sent = r.out]_vars

\* a Connected process receives DATA with seq 0 from the peer whose HANDSHAKE, also
\* with seq 0, connected it
C29_Witness ==
    /\ ev.op = "recv" /\ ReceivedFrame(ev, RAW_MSG_DATA)
    /\ SeqOf(ev.rx.msg) = Zero32
    /\ SrcOf(ev.rx.msg) = ctx[ev.who].peer_id
    /\ ctx[ev.who].state = RAW_STATE_CONNECTED
    /\ Small32(ctx[ev.who].seq_tx) = 2
    /\ ev.ret = 4 /\ ev.buf = Ping /\ ev.cbs = <<"data">>
    /\ ctx[ev.who].seq_rx = Zero32

\* ------------------------------------------------------------ claims, the codec
\* y is x + 1 modulo 2^32, told from the two 16-bit halves of the words
Follows(x, y) ==
    LET lo == x[1] + 256 * x[2]
        hi == x[3] + 256 * x[4]
    IN IF lo < 65535
       THEN y[1] + 256 * y[2] = lo + 1 /\ y[3] + 256 * y[4] = hi
       ELSE y[1] + 256 * y[2] = 0 /\ y[3] + 256 * y[4] = (hi + 1) % 65536

\* C24: a fresh session counts from 0; every frame built, of any type, carries the
\* counter's value and moves it on by exactly 1, 2^32 - 1 being followed by 0; an encode
\* that fails because payload + header exceed the output buffer leaves it as it was.
C24_SeqCountsFrames ==
    [][ /\ \A s \in Sessions : raw_comm_init(Seed[s]).seq_tx = Zero32
        /\ ev'.op = "encode" =>
             IF ev'.size >= HeaderSize + Len(ev'.payload)
             THEN /\ ev'.rc = HeaderSize + Len(ev'.payload)
                  /\ SeqOf(ev'.msg) = ctx["B"].seq_tx
                  /\ Follows(ctx["B"].seq_tx, ctx'["B"].seq_tx)
             ELSE /\ ev'.rc < 0
                  /\ ctx'["B"].seq_tx = ctx["B"].seq_tx ]_vars

\* the frame numbered 2^32 - 1 has been built and the counter is back at 0
C24_Witness ==
    /\ ev.op = "encode" /\ ev.n = 2 /\ ev.rc > 0
    /\ SeqOf(ev.msg) = <<255, 255, 255, 255>>
    /\ ctx["B"].seq_tx = Zero32

\* C26: decoding what encode produced, for any type and any payload of up to 1000 bytes,
\* succeeds and yields the magic, version, msg_type, length, src_id, dst_id, seq and
\* payload bytes that were encoded.
C26_RoundTrip ==
    [][ (ev'.op = "decode" /\ ev'.defects = {}) =>
          /\ Len(ev'.payload) <= MsgBufSize - HeaderSize
          /\ ev'.rc = Len(ev'.payload)
          /\ ev'.hdr.magic = <<85, 67, 78, 80>>
          /\ ev'.hdr.version = 1
          /\ ev'.hdr.msg_type = ev'.msg_type
          /\ ev'.hdr.length = Len(ev'.payload)
          /\ ev'.hdr.src_id = ev'.by.local_id
          /\ ev'.hdr.dst_id = ev'.by.peer_id
          /\ ev'.hdr.seq = ev'.by.seq_tx
          /\ ev'.out = ev'.payload ]_vars

\* a DATA frame with the largest payload, 1000 bytes, came back whole
C26_Witness ==
    /\ ev.op = "decode" /\ ev.defects = {} /\ ev.msg_type = RAW_MSG_DATA
    /\ Len(ev.payload) = 1000 /\ ev.out = ev.payload
    /\ ev.hdr.length = 1000 /\ ev.hdr.seq = <<255, 255, 0, 0>>

\* C27: decode answers -1 for an input shorter than the header, else -2 for a wrong
\* magic, else -3 for a wrong version, else -4 for a declared length beyond the bytes
\* present, and accepts a buffer with none of these defects.
C27_FirstDefectReported ==
    [][ ev'.op = "decode" =>
          LET input == ev'.input IN
          IF Len(input) < 24 THEN ev'.rc = -1
          ELSE IF <<input[1], input[2], input[3], input[4]>> # <<85, 67, 78, 80>>
               THEN ev'.rc = -2
          ELSE IF input[5] # 1 THEN ev'.rc = -3
          ELSE IF input[7] + 256 * input[8] > Len(input) - 24 THEN ev'.rc = -4
          ELSE ev'.rc = input[7] + 256 * input[8] ]_vars

\* a buffer with a wrong magic, a wrong version and a short payload reported the magic
C27_Witness ==
    /\ ev.op = "decode" /\ ev.defects = {"magic", "version", "length"}
    /\ Len(ev.input) >= 24 /\ ev.input[4] # 80 /\ ev.input[5] # 1
    /\ ev.input[7] + 256 * ev.input[8] > Len(ev.input) - 24
    /\ ev.rc = -2

\* the positions and values tried for a single changed byte
\* (the first byte of every header field but the checksum, and the ends of the payload)
Changes(msg) ==
    (IF Len(msg) <= HeaderSize + Len(Ping)
     THEN {1, 5, 6, 7, 9, 13, 17, 20, 23, HeaderSize, Len(msg)}
     ELSE {1, Len(msg)}) \X {0, 255}
Changed(msg, i, v) ==
    [j \in 1..Len(msg) |-> IF j = i THEN (IF msg[i] = v THEN (v + 1) % 256 ELSE v)
                           ELSE IF j \in {21, 22} THEN 0 ELSE msg[j]]

\* C28: the checksum field of an encoded frame is the sum of the frame's bytes, the field
\* counted as zero, modulo 2^16; and the frame with one byte outside the field changed
\* has another checksum.
C28_ChecksumIsByteSum ==
    [][ (ev'.op = "encode" /\ ev'.rc > 0) =>
          LET msg == ev'.msg
              sum == SumBytes(msg, 1) - msg[21] - msg[22]
          IN /\ msg[21] + 256 * msg[22] = sum % 65536
             /\ \A ch \in Changes(msg) :
                  SumBytes(Changed(msg, ch[1], ch[2]), 1) % 65536 # msg[21] + 256 * msg[22] ]_vars

\* a frame whose bytes add up to more than 16 bits hold was encoded
C28_Witness ==
    /\ ev.op = "encode" /\ ev.rc = MsgBufSize
    /\ SumBytes(ev.msg, 1) - ev.msg[21] - ev.msg[22] > 65535
    /\ ev.msg[21] + 256 * ev.msg[22] = (SumBytes(ev.msg, 1) - ev.msg[21] - ev.msg[22]) % 65536

\* C30: a frame whose checksum field is wrong, all else being valid, is decoded and
\* handled as the frame with the right checksum is: same return value, same context,
\* same replies, callbacks and data.
C30_ChecksumNotVerified ==
    [][ (ev'.op = "deliver" /\ ev'.defects = {"checksum"}) =>
          /\ HdrOf(ev'.input).checksum # HdrOf(ev'.msg).checksum
          /\ [i \in 1..Len(ev'.msg) |-> IF i = 21 THEN 0 ELSE ev'.input[i]]
               = [i \in 1..Len(ev'.msg) |-> IF i = 21 THEN 0 ELSE ev'.msg[i]]
          /\ parse_message(ev'.input, MsgBufSize).rc >= 0
          /\ ev'.result = HandleMessage(ctx["A"], ev'.msg, CtlBufSize - 1)
          /\ ctx'["A"] = ev'.result.ctx ]_vars

\* a HANDSHAKE with a wrong checksum connected the receiver and was acknowledged
C30_Witness ==
    /\ ev.op = "deliver" /\ ev.defects = {"checksum"} /\ ev.msg_type = RAW_MSG_HANDSHAKE
    /\ ctx["A"].state = RAW_STATE_CONNECTED
    /\ ev.result.cbs = <<"connected">> /\ ev.result.out # <<>>
    /\ ev.result.ret = 0

\* ------------------------------------------------- claims, a peer that never answers
\* C22: a process that is polled for ever and never gets Connected does not stay in
\* Handshaking (or any state other than Disconnected and Detecting): it is in
\* Disconnected or Detecting again and again.
C22_NoStayInHandshaking ==
    [](ctx["A"].state # RAW_STATE_CONNECTED)
        => []<>(ctx["A"].state \in {RAW_STATE_DISCONNECTED, RAW_STATE_DETECTING})

\* ------------------------------------------------ claims, a transport that fails
\* the step is a send() whose transport write failed
WriteFailed(e) == e.op = "send" /\ e.data # <<>> /\ e.data[1] \in SendFaults

\* C23: a send() whose transport write fails returns an error, and a poll() call that
\* returns from a pass whose transport receive failed returns an error, not 0.
C23_TransportFailurePropagated ==
    [][ /\ WriteFailed(ev') => ev'.ret < 0
        /\ (ev'.op = "poll" /\ ev'.rx.rc < 0 /\ ev'.done) => ev'.ret < 0 ]_vars

\* ------------------------------------------------ claims, several senders
\* the files of senders other than process s
Pending(mb, s) == {id \in AllIds : id # ctx[s].local_id /\ mb[id].exists}

\* C25: a write leaves the writer's file holding the frame written and nothing else of
\* that writer; a receive right after a write by another sender returns what that write
\* wrote, the most recently written pending message; a receive never returns nor touches
\* the receiver's own file, and removes the file whose content it returns.
C25_NewestPendingReceived ==
    [][ /\ ev'.op = "write" =>
             /\ mailbox'[BoxId(ev'.who)].data = ev'.sent[1]
             /\ \A id \in AllIds \ {BoxId(ev'.who)} : mailbox'[id] = mailbox[id]
        /\ (ev'.op = "recv" /\ ev.op = "write") => ev'.rx.msg = ev.sent[1]
        /\ ev'.op = "recv" =>
             /\ mailbox'[ctx[ev'.who].local_id] = mailbox[ctx[ev'.who].local_id]
             /\ IF Pending(mailbox, ev'.who) = {} THEN ev'.rx.rc = 0 /\ mailbox' = mailbox
                ELSE \E id \in Pending(mailbox, ev'.who) :
                       /\ ev'.rx.msg = mailbox[id].data
                       /\ ~mailbox'[id].exists
                       /\ \A o \in AllIds \ {id} : mailbox'[o] = mailbox[o] ]_vars

\* ------------------------------------------------ claims, two processes
\* C31 as stated: whenever a process is Connected, its peer_id is the other's identity
\* and the other is Handshaking or Connected with the first as its peer.
C31_ConnectedMeansPaired ==
    \A s \in Sessions :
        ctx[s].state = RAW_STATE_CONNECTED =>
            /\ ctx[s].peer_id = Ids[Other(s)]
            /\ ctx[Other(s)].state \in {RAW_STATE_HANDSHAKING, RAW_STATE_CONNECTED}
            /\ ctx[Other(s)].peer_id = Ids[s]

\* C31: whenever a process is Connected, its peer_id is the other's identity and the
\* other has the first as its peer and is Handshaking, Connected or, having called
\* listen() again, Detecting.
C31_ConnectedPeerKnown ==
    \A s \in Sessions :
        ctx[s].state = RAW_STATE_CONNECTED =>
            /\ ctx[s].peer_id = Ids[Other(s)]
            /\ ctx[Other(s)].state \in
                 {RAW_STATE_DETECTING, RAW_STATE_HANDSHAKING, RAW_STATE_CONNECTED}
            /\ ctx[Other(s)].peer_id = Ids[s]

\* B called listen() again when A was Connected to it
C31_Witness ==
    /\ ev.op = "listen" /\ ev.who = "B"
    /\ ctx["A"].state = RAW_STATE_CONNECTED /\ ctx["A"].peer_id = Ids["B"]
    /\ ctx["B"].state = RAW_STATE_DETECTING /\ ctx["B"].peer_id = Ids["A"]

\* ------------------------------------------------ claims, what is sent again
\* C32: polled or receiving, a Handshaking process sends nothing unless it has just
\* received HANDSHAKE, and a Connected one sends nothing at all, no second HANDSHAKE_ACK
\* either; what a poll pass sends without having received a frame is DISCOVERY, from
\* Detecting. A process leaves Handshaking only by its own listen() or cleanup() or by
\* receiving HANDSHAKE, HANDSHAKE_ACK or DISCONNECT (connect() keeps it there).
C32_OnlyDiscoveryRepeated ==
    [][ /\ ev'.op \in {"poll", "recv"} =>
             /\ (ctx[ev'.who].state = RAW_STATE_HANDSHAKING
                   /\ ~ReceivedFrame(ev', RAW_MSG_HANDSHAKE)) => ev'.sent = <<>>
             /\ ctx[ev'.who].state = RAW_STATE_CONNECTED => ev'.sent = <<>>
             /\ ~(Received(ev') /\ Decodable(ev'.rx.msg)) =>
                    /\ \A i \in 1..Len(ev'.sent) : TypeOf(ev'.sent[i]) = RAW_MSG_DISCOVERY
                    /\ ev'.sent # <<>> => ctx[ev'.who].state = RAW_STATE_DETECTING
        /\ \A s \in Sessions :
             (ctx[s].state = RAW_STATE_HANDSHAKING /\ ctx'[s].state # RAW_STATE_HANDSHAKING) =>
                 /\ ev'.who = s
                 /\ \/ ev'.op \in {"listen", "cleanup"}
                    \/ ReceivedFrame(ev', RAW_MSG_HANDSHAKE)
                    \/ ReceivedFrame(ev', RAW_MSG_HANDSHAKE_ACK)
                    \/ ReceivedFrame(ev', RAW_MSG_DISCONNECT)
        /\ (ev'.op = "connect" /\ ctx[ev'.who].state = RAW_STATE_HANDSHAKING) =>
               ctx'[ev'.who].state = RAW_STATE_HANDSHAKING ]_vars

\* a Handshaking process came to the 2000th ms of a poll call and sent nothing
C32_Witness ==
    /\ ev.op = "poll" /\ ev.who = "A" /\ ev.elapsed = RediscoverPeriod /\ ev.done
    /\ ev.rx.rc = 0 /\ ev.sent = <<>>
    /\ ctx["A"].state = RAW_STATE_HANDSHAKING

\* C33: with connect() called with another process's identity only, a Connected
\* process has a peer_id that is neither 0 nor its own identity.
C33_ConnectedPeerIsAnother ==
    \A s \in Sessions :
        ctx[s].state = RAW_STATE_CONNECTED =>
            ctx[s].peer_id # Zero32 /\ ctx[s].peer_id # ctx[s].local_id

\* A called connect() and got Connected on the HANDSHAKE_ACK, which sets no peer_id
C33_Witness ==
    /\ ev.op = "poll" /\ ev.who = "A" /\ ev.rx.rc > 0
    /\ TypeOf(ev.rx.msg) = RAW_MSG_HANDSHAKE_ACK
    /\ ev.cbs = <<"connected">>
    /\ ctx["A"].state = RAW_STATE_CONNECTED /\ ctx["A"].peer_id = Ids["B"]
    /\ ctx["B"].peer_id = Ids["A"]

\* C34: DISCONNECT received in any state, and from any sender, the recorded peer or
\* not, leaves the process Disconnected with peer_id 0 and invokes the disconnected
\* callback once; nothing is sent and the receive returns 0.
C34_DisconnectAlwaysHonoured ==
    [][ReceivedFrame(ev', RAW_MSG_DISCONNECT)
          => /\ ctx'[ev'.who] = [ctx[ev'.who] EXCEPT !.state = RAW_STATE_DISCONNECTED,
                                                     !.peer_id = Zero32]
             /\ ev'.cbs = <<"disconnected">>
             /\ ev'.sent = <<>>
             /\ ev'.op = "recv" => ev'.ret = 0]_vars

\* a process that has never been Connected received DISCONNECT from a process that is
\* not the one it had called
C34_Witness ==
    /\ ReceivedFrame(ev, RAW_MSG_DISCONNECT) /\ SrcOf(ev.rx.msg) = Ids["B"]
    /\ ev.cbs = <<"disconnected">>
    /\ nconn[ev.who] = 0
    /\ Small32(ctx[ev.who].seq_tx) = 1
    /\ mailbox[ctx[ev.who].local_id].exists
    /\ DstOf(mailbox[ctx[ev.who].local_id].data) = IdC
    /\ ctx[ev.who].state = RAW_STATE_DISCONNECTED
    /\ ctx[ev.who].peer_id = Zero32

\* ------------------------------------------------ claims, a peer that shuts down
\* C35: no step sends DISCONNECT, KEEPALIVE or DATA_ACK, and cleanup() sends nothing and
\* leaves the directory as it is; so, all frames being those of the processes, a
\* Connected process stays Connected until its own listen(), connect() or cleanup().
C35_ConnectedUntilOwnCall ==
    [][ /\ ev'.op # "init" =>
             \A i \in 1..Len(ev'.sent) :
                 TypeOf(ev'.sent[i]) \notin {RAW_MSG_DISCONNECT, RAW_MSG_KEEPALIVE, RAW_MSG_DATA_ACK}
        /\ ev'.op = "cleanup" => ev'.sent = <<>> /\ mailbox' = mailbox
        /\ \A s \in Sessions :
             (ctx[s].state = RAW_STATE_CONNECTED /\ ctx'[s].state # RAW_STATE_CONNECTED)
                 => ev'.who = s /\ ev'.op \in {"listen", "connect", "cleanup"} ]_vars

\* A was polled, still Connected, after B, once Connected to it, had shut down
C35_Witness ==
    /\ ev.op = "poll" /\ ev.who = "A" /\ ev.done
    /\ ctx["A"].state = RAW_STATE_CONNECTED /\ ctx["A"].peer_id = Ids["B"]
    /\ ctx["B"].state = RAW_STATE_DISCONNECTED /\ nconn["B"] = 1

\* a Handshaking or Connected process that receives DISCOVERY does not answer and
\* stays as it is
DiscoveryUnanswered ==
    Receives(RAW_MSG_DISCOVERY, {RAW_STATE_HANDSHAKING, RAW_STATE_CONNECTED})
        => ctx'[ev'.who] = ctx[ev'.who] /\ ev'.sent = <<>> /\ ev'.cbs = <<>>

\* C36 as stated: DISCOVERY is not answered in Handshaking and Connected, and a process
\* that is Detecting while the other is Connected is still Detecting after any poll
\* pass or receive of either.
C36_LateListenerStaysDetecting ==
    [][ /\ DiscoveryUnanswered
        /\ \A s \in Sessions :
             (ctx[s].state = RAW_STATE_DETECTING /\ ctx[Other(s)].state = RAW_STATE_CONNECTED
                /\ ev'.op \in {"poll", "recv"})
                 => ctx'[s].state = RAW_STATE_DETECTING ]_vars

\* C36: DISCOVERY is not answered in Handshaking and Connected; a process that is
\* Detecting while the other is Connected leaves Detecting, calls of its own apart,
\* only by receiving a HANDSHAKE that the other had left unread in the directory,
\* which it answers and so gets Connected.
C36_LateListenerNeedsOldHandshake ==
    [][ /\ DiscoveryUnanswered
        /\ \A s \in Sessions :
             (ctx[s].state = RAW_STATE_DETECTING /\ ctx[Other(s)].state = RAW_STATE_CONNECTED
                /\ ctx'[s].state # RAW_STATE_DETECTING)
                 => /\ ev'.who = s
                    /\ \/ ev'.op \in {"connect", "cleanup"}
                       \/ /\ ReceivedFrame(ev', RAW_MSG_HANDSHAKE)
                          /\ ctx'[s].state = RAW_STATE_CONNECTED
                          /\ ctx'[Other(s)].state = RAW_STATE_CONNECTED ]_vars

\* B, listening since A was Connected, read the HANDSHAKE of A's second connect()
C36_Witness ==
    /\ ev.op = "poll" /\ ev.who = "B" /\ ReceivedFrame(ev, RAW_MSG_HANDSHAKE)
    /\ ev.cbs = <<"connected">>
    /\ nconn["A"] = 1 /\ nconn["B"] = 2
    /\ ctx["A"].state = RAW_STATE_CONNECTED /\ ctx["B"].state = RAW_STATE_CONNECTED

\* ------------------------------------------------ claims, the destination field
Readdressed(msg, d) == [i \in 1..Len(msg) |-> IF i \in 13..16 THEN d[i - 12] ELSE msg[i]]

\* C37: a received frame is handled as the same frame with any other dst_id would be,
\* the receiver's identity, 0 or a third identity: same context afterwards, same
\* frames sent, same callbacks, same result, in whatever state the receiver is.
C37_DstIgnored ==
    [][(ev'.op = "recv" /\ Received(ev') /\ Decodable(ev'.rx.msg))
          => \A d \in {ctx[ev'.who].local_id, Zero32, IdC} \ {DstOf(ev'.rx.msg)} :
               \E max_len \in RecvLens :
               \E r \in {RecvResult(ctx[ev'.who],
                                    [rc |-> ev'.rx.rc, msg |-> Readdressed(ev'.rx.msg, d)],
                                    max_len)} :
                  /\ ctx'[ev'.who] = r.ctx
                  /\ ev'.ret = r.ret /\ ev'.cbs = r.cbs /\ ev'.buf = r.buf
                  /\ ev'.data = r.data /\ ev'.sent = r.out]_vars

\* a HANDSHAKE addressed to nobody connected a process that had called another peer
C37_Witness ==
    /\ ev.op = "recv" /\ ReceivedFrame(ev, RAW_MSG_HANDSHAKE)
    /\ DstOf(ev.rx.msg) = Zero32 /\ SrcOf(ev.rx.msg) = IdC
    /\ ev.cbs = <<"connected">> /\ Len(ev.sent) = 1
    /\ ctx[ev.who].state = RAW_STATE_CONNECTED /\ ctx[ev.who].peer_id = IdC
    /\ Small32(ctx[ev.who].seq_tx) = 2

\* ------------------------------------------------ claims, interleaved transport calls
\* C38: the unlink of a receive removes the sender's file whatever was written to it
\* since the read, and the receive returns what it had read, nothing if it read the
\* file between the sender's open(O_TRUNC) and write; and a write on a file unlinked
\* since its open reaches no file. So a frame is lost that no later send overwrote.
C38_UnlinkTakesLaterWrite ==
    [][ /\ \A s \in Sessions :
             (io[s].pc = "read" /\ io'[s].pc # "read") =>
                 /\ ~mailbox'[io[s].best].exists
                 /\ ev'.who = s /\ ev'.op = "recv" /\ ev'.rx.msg = io[s].msg
                 /\ io[s].n = 0 => (ev'.ret = 0 /\ ctx' = ctx)
        /\ \A s \in Sessions :
             (io[s].pc = "write" /\ io'[s].pc # "write" /\ ~io[s].live) =>
                 /\ ev'.sent = <<Head(io[s].out)>>
                 /\ mailbox' = mailbox ]_vars

\* B has written its second frame in full; A, which had read the first before, has
\* now removed B's file and been given the first
C38_Witness ==
    /\ ev.op = "recv" /\ ev.who = "A" /\ ev.rx.rc > 0
    /\ SrcOf(ev.rx.msg) = Ids["B"] /\ SeqOf(ev.rx.msg) = Zero32
    /\ Small32(ctx["B"].seq_tx) = 2 /\ io["B"].pc = "idle"
    /\ ~mailbox[Ids["B"]].exists

\* a frame was written on a file that the receiver had unlinked since its open
LostInTruncatedFile ==
    /\ ev.op = "write" /\ ev.sent # <<>>
    /\ ~mailbox[ctx[ev.who].local_id].exists

\* ------------------------------------------------------------ poll while Connected
\* the step is the first pass of a poll call with a positive timeout, entered Connected
ConnectedPollEntered ==
    /\ ev'.op = "poll" /\ ~poll[ev'.who].active /\ ev'.timeout > 0
    /\ ctx[ev'.who].state = RAW_STATE_CONNECTED

\* payload_len of the header of a received frame
DeclaredLen(msg) == msg[7] + 256 * msg[8]

\* the call returned in its first pass, without sleeping: the payload length when the
\* attempt read a DATA frame, else 0
ReturnedAtOnce(e) ==
    /\ e.done /\ e.attempts = 1 /\ e.elapsed = 0
    /\ IF ReceivedFrame(e, RAW_MSG_DATA)
       THEN /\ e.ret = DeclaredLen(e.rx.msg)
            /\ e.buf = SubSeq(e.rx.msg, HeaderSize + 1, HeaderSize + e.ret)
       ELSE e.ret = 0

\* what the attempt read was the file of some sender, as it was after the arrival of
\* this step; that file is gone, the others are as they were, and a receive made next
\* with nothing new written does not pick it
ConsumedFromTransport ==
    \E w \in Outside : \E mb \in {Arrive(mailbox, w, now)} :
    \E id \in DOMAIN mb :
        /\ mb[id].exists
        /\ ev'.rx.msg = SubSeq(mb[id].data, 1, Min(Len(mb[id].data), MsgBufSize))
        /\ mailbox' = [mb EXCEPT ![id] = NoFile]
        /\ id \notin BestChoices(mailbox', ctx'[ev'.who])

\* C39 as stated: poll(timeout) with timeout > 0, entered Connected, makes exactly one
\* receive attempt and returns at once, the payload length if it read a DATA frame and
\* else 0; a payload it consumed is removed from the transport.
C39_ConnectedPollReturnsAtOnce ==
    [][ConnectedPollEntered
          => /\ ReturnedAtOnce(ev')
             /\ ev'.ret > 0 => ConsumedFromTransport]_vars

\* C39 as amended: the same, unless the one attempt reads a DISCONNECT: then the
\* session is Disconnected, the pass sleeps 100 ms, and the call returns 0 only when
\* its timeout has elapsed, making further attempts until then.
C39_ConnectedPollReturnsUnlessDropped ==
    [][ConnectedPollEntered
          => IF ReceivedFrame(ev', RAW_MSG_DISCONNECT)
             THEN /\ ctx'[ev'.who].state = RAW_STATE_DISCONNECTED
                  /\ ev'.attempts = 1 /\ ev'.elapsed = PollInterval
                  /\ ev'.done <=> ev'.timeout <= PollInterval
                  /\ ev'.done => ev'.ret = 0
                  /\ ~ev'.done => poll'[ev'.who].active
             ELSE /\ ReturnedAtOnce(ev')
                  /\ ctx'[ev'.who].state = RAW_STATE_CONNECTED
                  /\ ev'.ret > 0 => ConsumedFromTransport]_vars

\* a poll call entered Connected has returned the four bytes of a DATA frame in its
\* first pass, and the file it read is gone
C39_Witness ==
    /\ ev.op = "poll" /\ ev.done /\ ev.attempts = 1 /\ ev.elapsed = 0 /\ ev.timeout = 2000
    /\ ReceivedFrame(ev, RAW_MSG_DATA) /\ ev.ret = 4 /\ ev.buf = Ping
    /\ ctx[ev.who].state = RAW_STATE_CONNECTED
    /\ ~mailbox[SrcOf(ev.rx.msg)].exists
    /\ BestChoices(mailbox, ctx[ev.who]) = {Zero32}

\* a poll call of a process that has been Connected read a DISCONNECT in its first
\* pass and is still polling after it
C39_PollGoesOnAfterDisconnect ==
    /\ ev.op = "poll" /\ ~ev.done /\ ev.attempts = 1 /\ ev.elapsed = PollInterval
    /\ nconn[ev.who] > 0
    /\ ReceivedFrame(ev, RAW_MSG_DISCONNECT)
    /\ ctx[ev.who].state = RAW_STATE_DISCONNECTED
    /\ poll[ev.who].active

\* ------------------------------------------------------------ frames out of place
\* the receive of process c read a frame that its state has no use for
OutOfPlace(c, msg) ==
    /\ Decodable(msg)
    /\ \/ /\ c.state = RAW_STATE_DISCONNECTED
          /\ TypeOf(msg) \in {RAW_MSG_DISCOVERY, RAW_MSG_DISCOVERY_ACK, RAW_MSG_HANDSHAKE,
                               RAW_MSG_HANDSHAKE_ACK, RAW_MSG_DATA}
       \/ /\ c.state # RAW_STATE_DETECTING
          /\ TypeOf(msg) \in {RAW_MSG_DISCOVERY, RAW_MSG_DISCOVERY_ACK}
       \/ /\ TypeOf(msg) = RAW_MSG_DATA
          /\ (c.state # RAW_STATE_CONNECTED \/ DeclaredLen(msg) = 0)

\* the file that was read is gone from the transport, the files of the other senders
\* are as they were after the arrival of this step
TakenFromTransport ==
    \E w \in Outside : \E mb \in {Arrive(mailbox, w, now)} :
    \E id \in DOMAIN mb \ {ctx[ev'.who].local_id} :
        /\ mb[id].exists
        /\ Len(ev'.rx.msg) <= Len(mb[id].data)
        /\ ev'.rx.msg = SubSeq(mb[id].data, 1, Len(ev'.rx.msg))
        /\ ~mailbox'[id].exists
        /\ \A o \in DOMAIN mb \ {id, ctx[ev'.who].local_id} : mailbox'[o] = mb[o]

\* C40: a frame that does not match the receiver's state (DISCOVERY, DISCOVERY_ACK,
\* HANDSHAKE, HANDSHAKE_ACK or DATA when Disconnected; DISCOVERY or DISCOVERY_ACK
\* outside Detecting; DATA outside Connected, or with an empty payload in any state)
\* is consumed from the transport and changes nothing: state, peer_id and seq_tx are
\* as before, no frame is emitted and no callback invoked (the poll loop's periodic
\* DISCOVERY aside), nothing is delivered and the result is 0.
C40_OutOfPlaceFramesIgnored ==
    [][(Received(ev') /\ OutOfPlace(ctx[ev'.who], ev'.rx.msg))
          => /\ AsIfNothingPending
             /\ ev'.ret = 0 /\ ev'.data = <<>> /\ ev'.buf = <<>>
             /\ TakenFromTransport]_vars

\* a HANDSHAKE_ACK was received by a process that is Disconnected after having been
\* Connected: it is still Disconnected, with no peer, and the file is gone
C40_Witness ==
    /\ ReceivedFrame(ev, RAW_MSG_HANDSHAKE_ACK)
    /\ nconn[ev.who] > 0
    /\ ctx[ev.who].state = RAW_STATE_DISCONNECTED
    /\ ev.ret = 0 /\ ev.sent = <<>> /\ ev.cbs = <<>>
    /\ ~mailbox[SrcOf(ev.rx.msg)].exists

\* an empty DATA frame was received by a Connected process: nothing was delivered
C40_EmptyDataDropped ==
    /\ ReceivedFrame(ev, RAW_MSG_DATA) /\ DeclaredLen(ev.rx.msg) = 0
    /\ ctx[ev.who].state = RAW_STATE_CONNECTED
    /\ ev.ret = 0 /\ ev.data = <<>> /\ ev.cbs = <<>>
    /\ ~mailbox[SrcOf(ev.rx.msg)].exists

====
